---- MODULE Spec2Model ----
(***************************************************************************)
(* A model of the hierarchical graph layout engine of ember               *)
(* (src/src/ember/graph/layout.py).  The caller builds a networkx DiGraph  *)
(* (add_node / add_edge) and then calls layout(), whose stages are the     *)
(* actions of this module.  A Python exception raised by a stage ends the  *)
(* run in pc = "error" with the exception's class in err.                  *)
(***************************************************************************)
EXTENDS Integers, Sequences, FiniteSets, TLC

\* Bounds of the model: node identifiers are 1..MaxNodes, the caller adds at
\* most MaxEdges edges.
MaxNodes == 3
MaxEdges == 3
\* The same bounds for the runs that stop after the nodes are placed.
MaxPlacedNodes == 4
MaxPlacedEdges == 3

Node == 1..MaxNodes
PlacedNode == 1..MaxPlacedNodes
\* Lanes 0..MaxLane may be in use when first_unused_index is called on its own.
MaxLane == 6
\* The grids of the calls of assign_vertical_edge and assign_horizontal_edge
\* on their own: EdgeLayoutState(LaneGridMaxCol, LaneGridMaxRow), spans of up
\* to MaxBlocks + 1 cells, until the grids hold MaxLaneEntries entries.
LaneGridMaxCol == 0
LaneGridMaxRow == 0
MaxBlocks == 2
MaxLaneEntries == 3
LaneCol == (-1)..(LaneGridMaxCol + 1)
LaneRow == (-1)..(LaneGridMaxRow + 2)
LaneEdge == {<<1, 2>>, <<2, 1>>}

\* DEFAULT_LAYOUT = LayoutOptions(): the defaults of the four options.
DEFAULT_LAYOUT == [x_margin |-> 10, y_margin |-> 5, row_margin |-> 16, col_margin |-> 16]
\* make_grids: minimum width of the two border columns.
border_min_width == 20
\* The node size every node gets from the caller.
node_width == 100
node_height == 40

VARIABLES
  dg,               \* the caller's DiGraph: nodes, adj, pred in insertion order
  pc,               \* the stage of layout() that runs next
  err,              \* class of the Python exception that ended the run, or "none"
  err_at,           \* the function that raised it
  node_compare_key, \* the key function the caller passes: node -> orderable key
  ordered_nodes,    \* result of quasi_topological_sort
  dag,              \* result of to_acyclic_graph
  max_rows,         \* node -> row (calculate_max_row)
  max_row,          \* calculate_max_row's second result
  row_to_nodes,     \* assign_rows: sequence of <<row, nodes of the row>> in dict order
  cols,             \* node -> column (assign_columns)
  max_col,          \* assign_columns' third result
  vertical_edges,   \* EdgeLayoutState.vertical_edges: <<col, row>> -> (lane -> edge <<src, dst>>)
  horizontal_edges, \* EdgeLayoutState.horizontal_edges
  edges,            \* the SegmentedEdge list of route_edges
  row_heights,      \* make_grids
  col_widths,       \* make_grids
  node_coords,      \* LayoutResult.nodes
  edge_coords,      \* LayoutResult.edges: <<src,dst>> -> polyline
  node_sizes,       \* the dict the caller passes: node -> NodeSize
  dg_copy,          \* quasi_topological_sort: the collapsed copy of the graph
  tmp_nodes,        \* quasi_topological_sort: what topological_sort has yet to yield
  layout_options,   \* the LayoutOptions the caller passes to layout
  used_indices,     \* the set the last call of first_unused_index was given
  edge_index        \* what that call returned: Some(lane), None before a call and after an exception

vars == <<dg, pc, err, err_at, node_compare_key, ordered_nodes, dag, max_rows, max_row, row_to_nodes,
          cols, max_col, vertical_edges, horizontal_edges, edges,
          row_heights, col_widths, node_coords, edge_coords,
          node_sizes, dg_copy, tmp_nodes, layout_options, used_indices, edge_index>>

\* layout() hands the four options of layout_options to make_grids and
\* calculate_coordinates.
x_margin == layout_options.x_margin
y_margin == layout_options.y_margin
row_margin == layout_options.row_margin
col_margin == layout_options.col_margin

----------------------------------------------------------------------------
\* Generic helpers (Python built-ins).

Max(a, b) == IF a >= b THEN a ELSE b
Min(a, b) == IF a <= b THEN a ELSE b
Abs(a) == IF a >= 0 THEN a ELSE -a

\* x in list
InSeq(x, s) == \E i \in 1..Len(s) : s[i] = x

SeqToSet(s) == {s[i] : i \in 1..Len(s)}

\* Python's floor division by a positive divisor.
FloorDiv(a, b) == a \div b

\* Empty dict.
EmptyMap == [x \in {} |-> 0]

RECURSIVE InsertSorted(_, _, _, _)
\* insert x into the key-sorted list s, after every element whose key is <= key[x]
InsertSorted(x, s, key, i) ==
  IF i > Len(s) THEN Append(s, x)
  ELSE IF key[s[i]] > key[x]
       THEN SubSeq(s, 1, i - 1) \o <<x>> \o SubSeq(s, i, Len(s))
       ELSE InsertSorted(x, s, key, i + 1)

RECURSIVE SortedBy(_, _)
\* sorted(s, key=...): Python's sort is stable, equal keys keep their order
SortedBy(s, key) ==
  IF s = <<>> THEN <<>>
  ELSE InsertSorted(s[Len(s)], SortedBy(SubSeq(s, 1, Len(s) - 1), key), key, 1)

----------------------------------------------------------------------------
\* networkx.DiGraph: nodes and adjacency keep insertion order.

EmptyGraph == [nodes |-> <<>>, adj |-> EmptyMap, pred |-> EmptyMap]

add_node(g, n) ==
  IF n \in DOMAIN g.adj THEN g
  ELSE [nodes |-> Append(g.nodes, n),
        adj   |-> g.adj @@ (n :> <<>>),
        pred  |-> g.pred @@ (n :> <<>>)]

add_edge(g, u, v) ==
  LET g1 == add_node(add_node(g, u), v)
  IN  IF InSeq(v, g1.adj[u]) THEN g1
      ELSE [g1 EXCEPT !.adj[u] = Append(@, v), !.pred[v] = Append(@, u)]

RECURSIVE EdgesFrom(_, _)
EdgesFrom(g, i) ==
  IF i > Len(g.nodes) THEN <<>>
  ELSE LET u == g.nodes[i]
       IN  [k \in 1..Len(g.adj[u]) |-> <<u, g.adj[u][k]>>] \o EdgesFrom(g, i + 1)

\* dg.edges(): by source in node order, then by successor in adjacency order
graph_edges(g) == EdgesFrom(g, 1)

number_of_edges(g) == Len(graph_edges(g))

----------------------------------------------------------------------------
\* Stage 1: quasi_topological_sort.

RECURSIVE ReachFrom(_, _, _)
\* nodes reachable from the frontier by one or more edges
ReachFrom(g, frontier, seen) ==
  LET nxt == UNION {SeqToSet(g.adj[n]) : n \in frontier} \ seen
  IN  IF nxt = {} THEN seen ELSE ReachFrom(g, nxt, seen \cup nxt)

Reaches(g, u, v) == v \in ReachFrom(g, {u}, {})

\* networkx.strongly_connected_components(dg), filtered by len(scc) > 1
multi_node_sccs(g) ==
  LET scc(n) == {n} \cup {m \in DOMAIN g.adj : Reaches(g, n, m) /\ Reaches(g, m, n)}
  IN  {scc(n) : n \in DOMAIN g.adj} \ {{n} : n \in DOMAIN g.adj}

RECURSIVE CollapseEdges_swapped(_, _, _)
\* CollapseEdges with the two ends of every copied edge exchanged
CollapseEdges_swapped(es, i, copy) ==
  IF i > Len(es) THEN copy
  ELSE CollapseEdges_swapped(es, i + 1,
         IF es[i][1] = es[i][2] THEN copy ELSE add_edge(copy, es[i][2], es[i][1]))

RECURSIVE CollapseEdges(_, _, _)
\* Lines 292-306.  On this path no node has an SCC index, so no edge end is
\* replaced by a placeholder; a self-loop is skipped.
CollapseEdges(es, i, copy) ==
  IF i > Len(es) THEN copy
  ELSE CollapseEdges(es, i + 1,
         IF es[i][1] = es[i][2] THEN copy ELSE add_edge(copy, es[i][1], es[i][2]))

RECURSIVE AddLoners(_, _, _)
\* Lines 308-312: nodes with out-degree 0 and in-degree 0 are added as they are.
AddLoners(g, i, copy) ==
  IF i > Len(g.nodes) THEN copy
  ELSE LET n == g.nodes[i]
       IN  AddLoners(g, i + 1,
             IF Len(g.adj[n]) = 0 /\ Len(g.pred[n]) = 0 THEN add_node(copy, n) ELSE copy)

RECURSIVE ChildrenOf(_, _, _)
ChildrenOf(g, gen, i) ==
  IF i > Len(gen) THEN <<>> ELSE g.adj[gen[i]] \o ChildrenOf(g, gen, i + 1)

RECURSIVE VisitChildren(_, _, _, _)
\* one generation of Kahn's algorithm: lower the in-degree of every child
VisitChildren(children, i, indeg, zero) ==
  IF i > Len(children) THEN [indeg |-> indeg, zero |-> zero]
  ELSE LET c == children[i]
           d == indeg[c] - 1
       IN  VisitChildren(children, i + 1, [indeg EXCEPT ![c] = d],
                         IF d = 0 THEN Append(zero, c) ELSE zero)

RECURSIVE TopoGenerations(_, _, _)
TopoGenerations(g, gen, indeg) ==
  IF gen = <<>> THEN <<>>
  ELSE LET r == VisitChildren(ChildrenOf(g, gen, 1), 1, indeg, <<>>)
       IN  gen \o TopoGenerations(g, r.zero, r.indeg)

\* topological_sort that hands back the nodes in insertion order
topological_sort_unsorted(g) == g.nodes

\* networkx.topological_sort: generation by generation, nodes in insertion order
topological_sort(g) ==
  TopoGenerations(g,
                  SelectSeq(g.nodes, LAMBDA n : Len(g.pred[n]) = 0),
                  [n \in DOMAIN g.adj |-> Len(g.pred[n])])

\* quasi_topological_sort without the fast path and without the loners: only
\* the nodes that an edge names come back
quasi_topological_sort_edges_only(g) ==
  IF multi_node_sccs(g) # {} THEN [err |-> "TypeError", order |-> <<>>]
  ELSE [err |-> "none",
        order |-> topological_sort(CollapseEdges(graph_edges(g), 1, EmptyGraph))]

\* The result is the order, or the exception the call raises: line 289 uses
\* each SCC (a Python set) as a dict key, which raises TypeError.
quasi_topological_sort(g) ==
  IF Len(g.nodes) = 1 THEN [err |-> "none", order |-> g.nodes]
  ELSE IF multi_node_sccs(g) # {} THEN [err |-> "TypeError", order |-> <<>>]
  ELSE [err |-> "none",
        order |-> topological_sort(AddLoners(g, 1, CollapseEdges(graph_edges(g), 1, EmptyGraph)))]

----------------------------------------------------------------------------
\* Stage 2: to_acyclic_graph.

RECURSIVE AddUnvisited(_, _, _, _, _)
AddUnvisited(g, node, succs, visited, out) ==
  IF succs = <<>> THEN out
  ELSE AddUnvisited(g, node, Tail(succs), visited,
         IF Head(succs) \in visited THEN out ELSE add_edge(out, node, Head(succs)))

RECURSIVE ToAcyclic_visit_after(_, _, _, _)
\* ToAcyclic with visited.add(node) moved behind the loop over the successors
ToAcyclic_visit_after(g, order, i, out) ==
  IF i > Len(order) THEN out
  ELSE LET node == order[i]
           visited == {order[k] : k \in 1..(i - 1)}
       IN  ToAcyclic_visit_after(g, order, i + 1,
                     AddUnvisited(g, node, g.adj[node], visited, add_node(out, node)))

RECURSIVE ToAcyclic(_, _, _, _)
ToAcyclic(g, order, i, out) ==
  IF i > Len(order) THEN out
  ELSE LET node == order[i]
           visited == {order[k] : k \in 1..i}
       IN  ToAcyclic(g, order, i + 1,
                     AddUnvisited(g, node, g.adj[node], visited, add_node(out, node)))

to_acyclic_graph(g, order) == ToAcyclic(g, order, 1, EmptyGraph)

----------------------------------------------------------------------------
\* Stage 3: calculate_max_row and assign_rows.

RECURSIVE PushSuccs_once(_, _, _)
\* PushSuccs that sets the row of a successor only the first time it is seen
PushSuccs_once(succs, row, st) ==
  IF succs = <<>> THEN st
  ELSE LET s == Head(succs)
       IN  PushSuccs_once(Tail(succs), row,
             IF s \notin DOMAIN st.rows
             THEN [rows |-> st.rows @@ (s :> row + 1), max |-> Max(st.max, row + 1)]
             ELSE st)

RECURSIVE PushSuccs(_, _, _)
\* the inner loop: a successor's row is raised to row + 1
PushSuccs(succs, row, st) ==
  IF succs = <<>> THEN st
  ELSE LET s == Head(succs)
       IN  PushSuccs(Tail(succs), row,
             IF s \notin DOMAIN st.rows
             THEN [rows |-> st.rows @@ (s :> row + 1), max |-> Max(st.max, row + 1)]
             ELSE IF st.rows[s] < row + 1
                  THEN [rows |-> [st.rows EXCEPT ![s] = row + 1], max |-> Max(st.max, row + 1)]
                  ELSE st)

RECURSIVE MaxRowLoop_reset(_, _, _, _)
\* MaxRowLoop that sets max_rows[node] = 0 on every visit, seen before or not
MaxRowLoop_reset(d, order, i, st) ==
  IF i > Len(order) THEN st
  ELSE LET node == order[i]
           st1  == [st EXCEPT !.rows = (node :> 0) @@ st.rows]
           row  == st1.rows[node]
       IN  MaxRowLoop_reset(d, order, i + 1,
                      PushSuccs(d.adj[node], row, [st1 EXCEPT !.max = Max(st1.max, row)]))

RECURSIVE MaxRowLoop(_, _, _, _)
MaxRowLoop(d, order, i, st) ==
  IF i > Len(order) THEN st
  ELSE LET node == order[i]
           st1  == IF node \in DOMAIN st.rows THEN st
                   ELSE [st EXCEPT !.rows = st.rows @@ (node :> 0)]
           row  == st1.rows[node]
       IN  MaxRowLoop(d, order, i + 1,
                      PushSuccs(d.adj[node], row, [st1 EXCEPT !.max = Max(st1.max, row)]))

\* [rows |-> node -> row, max |-> the largest row]
calculate_max_row(d, order) == MaxRowLoop(d, order, 1, [rows |-> EmptyMap, max |-> 0])

RECURSIVE RowsLoop(_, _, _, _)
\* row_to_nodes[row].append(node); the dict keeps the rows in first-use order
RowsLoop(order, rows, i, acc) ==
  IF i > Len(order) THEN acc
  ELSE LET r == rows[order[i]]
           at == {k \in 1..Len(acc) : acc[k][1] = r}
       IN  RowsLoop(order, rows, i + 1,
             IF at = {} THEN Append(acc, <<r, <<order[i]>> >>)
             ELSE LET k == CHOOSE k \in at : TRUE
                  IN  [acc EXCEPT ![k] = <<r, Append(acc[k][2], order[i])>>])

assign_rows(order, rows, key) ==
  LET acc == RowsLoop(order, rows, 1, <<>>)
  IN  [k \in 1..Len(acc) |-> <<acc[k][1], SortedBy(acc[k][2], key)>>]

----------------------------------------------------------------------------
\* Stage 4: assign_columns.  An optional integer (None or a value) is a
\* sequence of length 0 or 1.

None == <<>>
Some(v) == <<v>>

RECURSIVE ColumnBand(_, _, _)
\* The loops over the placed successors (lines 460-466) and predecessors
\* (lines 510-516): the band starts at the column of the leftmost one and
\* ends one past a column that exceeds the current end.
ColumnBand(ns, cs, band) ==
  IF ns = <<>> THEN band
  ELSE LET n == Head(ns)
       IN  ColumnBand(Tail(ns), cs,
             IF n \notin DOMAIN cs THEN band
             ELSE LET c == cs[n]
                  IN  [min |-> IF band.min = None \/ c < band.min[1] THEN Some(c) ELSE band.min,
                       max |-> IF band.max = None \/ c > band.max[1] THEN Some(c + 1) ELSE band.max])

\* Lines 468-478: the band of a node in the bottom-up pass.
BottomUpBand(band, next_min_col, next_max_col) ==
  IF band.min = None /\ band.max = None
  THEN [min |-> next_min_col, max |-> next_max_col]
  ELSE [min |-> IF band.min[1] < next_min_col THEN next_min_col ELSE band.min[1],
        max |-> IF band.max[1] < next_min_col THEN next_min_col + 1 ELSE band.max[1]]

\* Lines 486-490: where the next node of the row may start.
NextMinCol(lo, hi) ==
  IF lo = hi THEN hi + 2 ELSE hi + 1

RECURSIVE BottomUpRow(_, _, _, _, _)
\* one row of the bottom-up pass; st = [cols, gmax]
BottomUpRow(d, row_nodes, i, next_min_col, st) ==
  IF i > Len(row_nodes) THEN st
  ELSE LET node == row_nodes[i]
           band == BottomUpBand(ColumnBand(d.adj[node], st.cols, [min |-> None, max |-> None]),
                                next_min_col, next_min_col + 1)
           col  == FloorDiv(band.min + band.max, 2)
           cs   == IF node \in DOMAIN st.cols THEN [st.cols EXCEPT ![node] = col]
                   ELSE st.cols @@ (node :> col)
       IN  BottomUpRow(d, row_nodes, i + 1, NextMinCol(band.min, band.max),
                       [cols |-> cs, gmax |-> Max(st.gmax, col)])

RECURSIVE BottomUp(_, _, _, _, _)
\* rows in reversed dict order
BottomUp(d, rtn, key, k, st) ==
  IF k < 1 THEN st
  ELSE BottomUp(d, rtn, key, k - 1, BottomUpRow(d, SortedBy(rtn[k][2], key), 1, 1, st))

RECURSIVE OverlapScan(_, _, _, _, _, _)
\* the loop of detect_overlap over the other nodes of the row, by column
OverlapScan(others, i, cs, ideal_col, overlap_detected, suggested_col) ==
  IF i > Len(others) THEN [overlap |-> overlap_detected, suggested |-> suggested_col]
  ELSE LET c   == cs[others[i]]
           ov  == overlap_detected \/ (c - 1 <= ideal_col /\ ideal_col <= c + 1)
           sug == IF c - 1 <= suggested_col /\ suggested_col <= c + 1 THEN c + 2
                  ELSE suggested_col
       IN  IF ov /\ sug < c - 1
           THEN [overlap |-> ov, suggested |-> sug]
           ELSE OverlapScan(others, i + 1, cs, ideal_col, ov, sug)

\* detect_overlap that never moves the node off its ideal column
detect_overlap_ideal(node, cs, ideal_col, row_nodes, lo) == ideal_col

\* the column detect_overlap returns
detect_overlap(node, cs, ideal_col, row_nodes, lo) ==
  LET sorted == SortedBy(row_nodes, cs)
      others == SelectSeq(sorted, LAMBDA n : n # node)
      r      == OverlapScan(others, 1, cs, ideal_col, FALSE, lo)
  IN  IF r.overlap THEN r.suggested ELSE ideal_col

RECURSIVE TopDownRow(_, _, _, _, _, _)
\* one row of the top-down pass; next_min_col, next_max_col are optional
TopDownRow(d, row_nodes, i, next_min_col, next_max_col, st) ==
  IF i > Len(row_nodes) THEN st
  ELSE LET node  == row_nodes[i]
           preds == d.pred[node]
       IN  IF Len(preds) < 2
           THEN LET col == st.cols[node]
                IN  TopDownRow(d, row_nodes, i + 1,
                      Some(Max(IF next_min_col # None THEN next_min_col[1] ELSE 0, col + 2)),
                      Some(Max(IF next_max_col # None THEN next_max_col[1] ELSE 0, col + 3)),
                      st)
           ELSE LET band == ColumnBand(preds, st.cols, [min |-> next_min_col, max |-> next_max_col])
                    ideal == FloorDiv(band.min[1] + band.max[1], 2)
                    col  == detect_overlap(node, st.cols, ideal, row_nodes, band.min[1])
                IN  TopDownRow(d, row_nodes, i + 1,
                      Some(band.max[1] + 1), Some(band.max[1] + 2),
                      [cols |-> [st.cols EXCEPT ![node] = col], gmax |-> Max(st.gmax, col)])

RECURSIVE TopDown(_, _, _, _)
\* rows in dict order
TopDown(d, rtn, k, st) ==
  IF k > Len(rtn) THEN st
  ELSE TopDown(d, rtn, k + 1, TopDownRow(d, rtn[k][2], 1, None, None, st))

\* assign_columns that returns global_max_col itself as max_col
assign_columns_tight(d, rtn, key) ==
  LET st == TopDown(d, rtn, 1,
                    BottomUp(d, rtn, key, Len(rtn), [cols |-> EmptyMap, gmax |-> 0]))
  IN  [cols |-> st.cols, max_col |-> st.gmax]

\* [cols |-> node -> column, max_col |-> global_max_col + 1]
assign_columns(d, rtn, key) ==
  LET st == TopDown(d, rtn, 1,
                    BottomUp(d, rtn, key, Len(rtn), [cols |-> EmptyMap, gmax |-> 0]))
  IN  [cols |-> st.cols, max_col |-> st.gmax + 1]

----------------------------------------------------------------------------
\* Stage 5: route_edges.

\* Move enum values.
LEFT == 0
NA == 1
RIGHT == 2

\* Python list indexing: a negative index counts from the end, an index
\* outside -n..n-1 raises IndexError.
PyIndex(i, n) == IF i < 0 THEN i + n ELSE i
PyIndexOk(i, n) == 0 <= PyIndex(i, n) /\ PyIndex(i, n) < n

\* node_locations: GridIndex(col, row) of every placed node
locations(cs, rows) == [n \in DOMAIN cs |-> [col |-> cs[n], row |-> rows[n]]]

\* EdgeLayoutState.__init__, lines 116-123: edge_valid is a list of
\* max_col + 2 columns of max_row + 1 entries, and the loop over the node
\* locations indexes it with gi.col, gi.col + 1 and gi.row as Python
\* indexes.  The constructor raises IndexError for a location outside it.
EdgeLayoutState_error(mc, mr, locs) ==
  IF \E n \in DOMAIN locs :
        \/ ~ PyIndexOk(locs[n].col, mc + 2)
        \/ ~ PyIndexOk(locs[n].col + 1, mc + 2)
        \/ ~ PyIndexOk(locs[n].row, mr + 1)
  THEN "IndexError" ELSE "none"

\* edge_valid[c][r] of the state EdgeLayoutState(max_col, max_row, locs), for
\* 0 <= c < max_col + 2 and 0 <= r < max_row + 1: False in the two cells
\* that the loop of lines 120-123 has written for a node
edge_valid(locs, mc, mr, c, r) ==
  ~ \E n \in DOMAIN locs :
       /\ PyIndex(locs[n].row, mr + 1) = r
       /\ (PyIndex(locs[n].col, mc + 2) = c \/ PyIndex(locs[n].col + 1, mc + 2) = c)

\* EdgeLayoutState.__init__: a grid of (max_col + 2) x (max_row + 3) empty
\* dicts.  A grid is held as the map from its non-empty cells <<col, row>> to
\* their dicts; every other cell of the grid is an empty dict.
empty_edge_grid == EmptyMap

\* grid[col][row] for a cell inside the grid
CellOf(grid, cell) == IF cell \in DOMAIN grid THEN grid[cell] ELSE EmptyMap

RECURSIVE AvailableFrom(_, _, _, _, _, _)
AvailableFrom(locs, mc, mr, c, r, end_row) ==
  IF r >= end_row THEN [err |-> "none", ok |-> TRUE]
  ELSE IF ~ PyIndexOk(c, mc + 2) \/ ~ PyIndexOk(r, mr + 1)
       THEN [err |-> "IndexError", ok |-> FALSE]
       ELSE IF ~ edge_valid(locs, mc, mr, PyIndex(c, mc + 2), PyIndex(r, mr + 1))
            THEN [err |-> "none", ok |-> FALSE]
            ELSE AvailableFrom(locs, mc, mr, c, r + 1, end_row)

\* EdgeLayoutState.edge_available(col, start_row, end_row)
edge_available(locs, mc, mr, c, start_row, end_row) ==
  AvailableFrom(locs, mc, mr, c, start_row, end_row)

RECURSIVE ChannelSearch_left_first(_, _, _, _, _, _, _)
\* ChannelSearch that tries col - offset before col + offset
ChannelSearch_left_first(locs, mc, mr, c, lo_row, hi_row, offset) ==
  LET right == edge_available(locs, mc, mr, c + offset, lo_row, hi_row)
      left  == edge_available(locs, mc, mr, c - offset, lo_row, hi_row)
  IN  IF left.err # "none" THEN [err |-> left.err, col |-> c]
      ELSE IF left.ok THEN [err |-> "none", col |-> c - offset]
      ELSE IF right.err # "none" THEN [err |-> right.err, col |-> c]
      ELSE IF right.ok THEN [err |-> "none", col |-> c + offset]
      ELSE ChannelSearch_left_first(locs, mc, mr, c, lo_row, hi_row, offset + 1)

RECURSIVE ChannelSearch(_, _, _, _, _, _, _)
\* Lines 623-631: try col + offset, then col - offset, for offset = 1, 2, ...
ChannelSearch(locs, mc, mr, c, lo_row, hi_row, offset) ==
  LET right == edge_available(locs, mc, mr, c + offset, lo_row, hi_row)
      left  == edge_available(locs, mc, mr, c - offset, lo_row, hi_row)
  IN  IF right.err # "none" THEN [err |-> right.err, col |-> c]
      ELSE IF right.ok THEN [err |-> "none", col |-> c + offset]
      ELSE IF left.err # "none" THEN [err |-> left.err, col |-> c]
      ELSE IF left.ok THEN [err |-> "none", col |-> c - offset]
      ELSE ChannelSearch(locs, mc, mr, c, lo_row, hi_row, offset + 1)

\* Lines 620-631: the column of the vertical part of the edge
channel_column(locs, mc, mr, start_col, lo_row, hi_row) ==
  LET here == edge_available(locs, mc, mr, start_col, lo_row, hi_row)
  IN  IF here.err # "none" THEN [err |-> here.err, col |-> start_col]
      ELSE IF here.ok THEN [err |-> "none", col |-> start_col]
      ELSE ChannelSearch(locs, mc, mr, start_col, lo_row, hi_row, 1)

MaxOf(S) == CHOOSE m \in S : \A x \in S : x <= m

\* first_unused_index that gives lane 0 whatever lanes are in use
first_unused_index_zero(indices) == [err |-> "none", idx |-> 0]

\* first_unused_index: the lane for a new segment, given the lanes in use
first_unused_index(indices) ==
  IF indices = {} THEN [err |-> "none", idx |-> 0]
  ELSE IF Cardinality(indices) = 1
       THEN IF indices = {0} THEN [err |-> "none", idx |-> 1]
            ELSE [err |-> "AssertionError", idx |-> 0]
       ELSE LET gaps == {i \in indices : i # MaxOf(indices) /\ i + 1 \notin indices}
            IN  IF gaps # {}
                THEN [err |-> "none", idx |-> (CHOOSE i \in gaps : \A j \in gaps : i <= j) + 1]
                ELSE [err |-> "none", idx |-> MaxOf(indices) + 1]

\* AssignLane that puts a fresh dict with the one lane into every cell of the span
AssignLane_replace(grid, e, cells, f) ==
  IF f.err # "none" THEN [err |-> f.err, grid |-> grid, idx |-> 0]
  ELSE [err |-> "none",
        idx |-> f.idx,
        grid |-> [cell \in DOMAIN grid \cup cells |->
                   IF cell \in cells THEN (f.idx :> e) ELSE grid[cell]]]

\* Lines 739-742 (759-762): lane f.idx of every cell of the span is given to
\* edge e, unless first_unused_index raised
AssignLane(grid, e, cells, f) ==
  IF f.err # "none" THEN [err |-> f.err, grid |-> grid, idx |-> 0]
  ELSE [err |-> "none",
        idx |-> f.idx,
        grid |-> [cell \in DOMAIN grid \cup cells |->
                   IF cell \in cells
                   THEN (f.idx :> e) @@ CellOf(grid, cell)
                   ELSE grid[cell]]]

\* the lanes in use in the cells of the span, then the first unused one
AssignCells(grid, e, cells) ==
  AssignLane(grid, e, cells,
             first_unused_index(UNION {DOMAIN CellOf(grid, cell) : cell \in cells}))

\* The body shared by assign_vertical_edge and assign_horizontal_edge: the
\* span is a list of cells <<col, row>>; ncols, nrows are the grid's sizes.
AssignSpan(grid, e, span, ncols, nrows) ==
  IF \E k \in 1..Len(span) : ~ PyIndexOk(span[k][1], ncols) \/ ~ PyIndexOk(span[k][2], nrows)
  THEN [err |-> "IndexError", grid |-> grid, idx |-> 0]
  ELSE AssignCells(grid, e,
         {<<PyIndex(span[k][1], ncols), PyIndex(span[k][2], nrows)>> : k \in 1..Len(span)})

\* rows row .. row + num_blocks of column col
assign_vertical_edge(grid, e, c, r, num_blocks, ncols, nrows) ==
  AssignSpan(grid, e, [k \in 1..(num_blocks + 1) |-> <<c, r + k - 1>>], ncols, nrows)

\* columns col .. col + num_blocks of row row
assign_horizontal_edge(grid, e, c, r, num_blocks, ncols, nrows) ==
  AssignSpan(grid, e, [k \in 1..(num_blocks + 1) |-> <<c + k - 1, r>>], ncols, nrows)

EdgeCoord(c, r, i) == [col |-> c, row |-> r, idx |-> i]

\* SegmentedEdge(src, dst) with its default fields
SegmentedEdge(src, dst) ==
  [src |-> src, dst |-> dst,
   start_index |-> None, max_start_index |-> 0,
   end_index |-> None, max_end_index |-> None,
   points |-> <<>>, moves |-> <<>>, coordinates |-> <<>>]

FirstError(errs) ==
  IF \A k \in 1..Len(errs) : errs[k] = "none" THEN "none"
  ELSE errs[CHOOSE k \in 1..Len(errs) : errs[k] # "none" /\ \A j \in 1..(k - 1) : errs[j] = "none"]

\* the position in errs of the first exception
FirstErrorAt(errs) ==
  CHOOSE k \in 1..Len(errs) : errs[k] # "none" /\ \A j \in 1..(k - 1) : errs[j] = "none"

\* state.vertical_edges after a call of route_edge that raised at step k of
\* a1, channel search, a2, a3, a4, a5: the assignments before step k have
\* written their lanes, and a1, a3, a5 are the ones that write this grid
RaisedVerticalGrid(k, v, a1, a3) ==
  IF k = 1 THEN v ELSE IF k <= 4 THEN a1.grid ELSE a3.grid

\* state.horizontal_edges after a call of route_edge that raised at step k:
\* a2 and a4 are the assignments that write this grid
RaisedHorizontalGrid(k, h, a2, a4) ==
  IF k <= 3 THEN h ELSE IF k <= 5 THEN a2.grid ELSE a4.grid

\* route_edge_result that leaves out the waypoint at the turn from the start
\* row into the channel
route_edge_result_no_jog(v, h, src, dst, start_col, end_col, start_row, end_row, ch, a1, a2, a3, a4, a5) ==
  LET c    == ch.col
      pts1 == <<EdgeCoord(start_col, start_row, a1.idx)>>
      pts2 == pts1
      mv2  == IF c # start_col THEN <<IF start_col < c THEN RIGHT ELSE LEFT>> ELSE <<>>
      pts3 == IF start_row # end_row THEN Append(pts2, EdgeCoord(c, end_row, a3.idx)) ELSE pts2
      pts5 == IF c # end_col
              THEN pts3 \o <<EdgeCoord(end_col, end_row, a4.idx), EdgeCoord(end_col, end_row, a5.idx)>>
              ELSE pts3
      mv5  == IF c # end_col THEN Append(mv2, IF c < end_col THEN RIGHT ELSE LEFT) ELSE mv2
      errs == <<a1.err, ch.err, a2.err, a3.err, a4.err, a5.err>>
      error == FirstError(errs)
  IN  IF error # "none"
      THEN [err |-> error,
            v |-> RaisedVerticalGrid(FirstErrorAt(errs), v, a1, a3),
            h |-> RaisedHorizontalGrid(FirstErrorAt(errs), h, a2, a4),
            edge |-> SegmentedEdge(src, dst)]
      ELSE [err |-> "none", v |-> a5.grid, h |-> a4.grid,
            edge |-> [SegmentedEdge(src, dst) EXCEPT !.points = pts5, !.moves = mv5]]

\* route_edge, lines 696-699: the SegmentedEdge and the grids after the five
\* assignments a1 .. a5, or the first error raised on the way
route_edge_result(v, h, src, dst, start_col, end_col, start_row, end_row, ch, a1, a2, a3, a4, a5) ==
  LET c    == ch.col
      pts1 == <<EdgeCoord(start_col, start_row, a1.idx)>>
      pts2 == IF c # start_col THEN Append(pts1, EdgeCoord(c, start_row, a2.idx)) ELSE pts1
      mv2  == IF c # start_col THEN <<IF start_col < c THEN RIGHT ELSE LEFT>> ELSE <<>>
      pts3 == IF start_row # end_row THEN Append(pts2, EdgeCoord(c, end_row, a3.idx)) ELSE pts2
      pts5 == IF c # end_col
              THEN pts3 \o <<EdgeCoord(end_col, end_row, a4.idx), EdgeCoord(end_col, end_row, a5.idx)>>
              ELSE pts3
      mv5  == IF c # end_col THEN Append(mv2, IF c < end_col THEN RIGHT ELSE LEFT) ELSE mv2
      errs == <<a1.err, ch.err, a2.err, a3.err, a4.err, a5.err>>
      error == FirstError(errs)
  IN  IF error # "none"
      THEN [err |-> error,
            v |-> RaisedVerticalGrid(FirstErrorAt(errs), v, a1, a3),
            h |-> RaisedHorizontalGrid(FirstErrorAt(errs), h, a2, a4),
            edge |-> SegmentedEdge(src, dst)]
      ELSE [err |-> "none", v |-> a5.grid, h |-> a4.grid,
            edge |-> [SegmentedEdge(src, dst) EXCEPT !.points = pts5, !.moves = mv5]]

\* route_edge, lines 669-694: the horizontal segment to the target column (a4)
\* and the drop onto the target (a5)
route_edge_target(v, h, src, dst, ncols, nrows, start_col, end_col, start_row, end_row, ch, a1, a2, a3) ==
  route_edge_result(v, h, src, dst, start_col, end_col, start_row, end_row, ch, a1, a2, a3,
    IF ch.col # end_col
    THEN assign_horizontal_edge(a2.grid, <<src, dst>>, Min(ch.col, end_col), end_row,
                                Abs(ch.col - end_col), ncols, nrows)
    ELSE [err |-> "none", grid |-> a2.grid, idx |-> 0],
    IF ch.col # end_col
    THEN assign_vertical_edge(a3.grid, <<src, dst>>, end_col, end_row, 0, ncols, nrows)
    ELSE [err |-> "none", grid |-> a3.grid, idx |-> 0])

\* route_edge, lines 633-667: the horizontal segment in the start row (a2) and
\* the vertical segment in the channel (a3)
route_edge_channel(v, h, src, dst, ncols, nrows, start_col, end_col, start_row, end_row, ch, a1) ==
  route_edge_target(v, h, src, dst, ncols, nrows, start_col, end_col, start_row, end_row, ch, a1,
    IF ch.col # start_col
    THEN assign_horizontal_edge(h, <<src, dst>>, Min(start_col, ch.col), start_row,
                                Abs(ch.col - start_col), ncols, nrows)
    ELSE assign_horizontal_edge(h, <<src, dst>>, start_col, start_row, 1, ncols, nrows),
    IF start_row # end_row
    THEN assign_vertical_edge(a1.grid, <<src, dst>>, ch.col, Min(start_row + 1, end_row),
                              Abs(end_row - start_row) + 1, ncols, nrows)
    ELSE [err |-> "none", grid |-> a1.grid, idx |-> 0])

\* route_edge, lines 605-631: the start of the first vertical segment (a1)
\* and the channel column (ch)
route_edge_start(v, h, locs, mc, mr, src, dst, start_col, end_col, start_row, end_row) ==
  route_edge_channel(v, h, src, dst, mc + 2, mr + 3, start_col, end_col, start_row, end_row,
    channel_column(locs, mc, mr, start_col, Min(start_row, end_row), Max(start_row, end_row)),
    assign_vertical_edge(v, <<src, dst>>, start_col, start_row, 0, mc + 2, mr + 3))

\* route_edge(state, src, dst): [err, v, h, edge] with the two lane grids
\* after the call and the routed SegmentedEdge
route_edge(v, h, locs, mc, mr, src, dst) ==
  IF src \notin DOMAIN locs \/ dst \notin DOMAIN locs
  THEN [err |-> "KeyError", v |-> v, h |-> h, edge |-> SegmentedEdge(src, dst)]
  ELSE route_edge_start(v, h, locs, mc, mr, src, dst,
                        locs[src].col + 1, locs[dst].col + 1, locs[src].row + 1, locs[dst].row)

first_move(e) == IF e.moves # <<>> THEN e.moves[1] ELSE NA
last_move(e) == IF e.moves # <<>> THEN e.moves[Len(e.moves)] ELSE NA

\* positions in es of the edges that enter (leave) node n, in routing order
InEdgesOf(es, n) == SelectSeq([k \in 1..Len(es) |-> k], LAMBDA k : es[k].dst = n)
OutEdgesOf(es, n) == SelectSeq([k \in 1..Len(es) |-> k], LAMBDA k : es[k].src = n)

\* The rank of the edge at position k of es among ks, the positions of the
\* edges that share its end node.  Two edges are sorted (stable) by the value
\* of the move given by mv, descending when reverse.
SiblingRank(es, ks, k, mv, reverse) ==
  LET ord == IF Len(ks) = 2 /\ (IF reverse THEN mv[ks[1]] < mv[ks[2]] ELSE mv[ks[1]] > mv[ks[2]])
             THEN <<ks[2], ks[1]>> ELSE ks
  IN  (CHOOSE i \in 1..Len(ord) : ord[i] = k) - 1

\* set_in_edge_indices that takes the number of siblings for the largest rank
set_in_edge_indices_count(es) ==
  [k \in 1..Len(es) |->
     LET ks == InEdgesOf(es, es[k].dst)
         mv == [j \in 1..Len(es) |-> last_move(es[j])]
     IN  [es[k] EXCEPT !.end_index = Some(SiblingRank(es, ks, k, mv, TRUE)),
                       !.max_end_index = Some(Len(ks))]]

\* EdgeLayoutState.set_in_edge_indices
set_in_edge_indices(es) ==
  [k \in 1..Len(es) |->
     LET ks == InEdgesOf(es, es[k].dst)
         mv == [j \in 1..Len(es) |-> last_move(es[j])]
     IN  [es[k] EXCEPT !.end_index = Some(SiblingRank(es, ks, k, mv, TRUE)),
                       !.max_end_index = Some(Len(ks) - 1)]]

\* EdgeLayoutState.set_out_edge_indices
set_out_edge_indices(es) ==
  [k \in 1..Len(es) |->
     LET ks == OutEdgesOf(es, es[k].src)
         mv == [j \in 1..Len(es) |-> first_move(es[j])]
     IN  [es[k] EXCEPT !.start_index = Some(SiblingRank(es, ks, k, mv, FALSE)),
                       !.max_start_index = Len(ks) - 1]]

----------------------------------------------------------------------------
\* Stage 6: calculate_max_edge_indices and make_grids.

\* calculate_max_edge_indices: cell -> largest lane, for the cells in use
calculate_max_edge_indices(grid) ==
  [cell \in DOMAIN grid |-> MaxOf(DOMAIN grid[cell])]

\* len(list) for a list held as a function on 0..n-1
ListLen(list) == Cardinality(DOMAIN list)

\* [0] * n
Zeros(n) == [i \in 0..(n - 1) |-> 0]

RECURSIVE GridNodes(_, _, _, _, _)
\* make_grids, lines 796-807: the loop over nodes; st = [err, row_heights,
\* col_widths].  locations[node] and sizes[node] raise KeyError, the lists
\* are indexed with loc.row and loc.col as Python indexes.
GridNodes(nodes, k, st, locs, sizes) ==
  IF st.err # "none" \/ k > Len(nodes) THEN st
  ELSE IF nodes[k] \notin DOMAIN locs \/ nodes[k] \notin DOMAIN sizes
  THEN [st EXCEPT !.err = "KeyError"]
  ELSE IF ~ PyIndexOk(locs[nodes[k]].row, ListLen(st.row_heights))
          \/ ~ PyIndexOk(locs[nodes[k]].col, ListLen(st.col_widths))
  THEN [st EXCEPT !.err = "IndexError"]
  ELSE GridNodes(nodes, k + 1,
         [err |-> "none",
          row_heights |->
            [st.row_heights EXCEPT ![PyIndex(locs[nodes[k]].row, ListLen(st.row_heights))] =
               Max(@, sizes[nodes[k]].height)],
          col_widths |->
            [c \in DOMAIN st.col_widths |->
               IF \/ c = PyIndex(locs[nodes[k]].col, ListLen(st.col_widths))
                  \/ /\ locs[nodes[k]].col + 1 < ListLen(st.col_widths)
                     /\ c = PyIndex(locs[nodes[k]].col + 1, ListLen(st.col_widths))
               THEN Max(st.col_widths[c], FloorDiv(sizes[nodes[k]].width, 2))
               ELSE st.col_widths[c]]],
         locs, sizes)

\* make_grids, lines 810-820: the lanes of the cells (col, row) with col in
\* range(len(col_widths)) and row in range(len(row_heights)); a cell whose
\* highest lane is k asks for (k + extra) margins
GridLanes(st, max_v, max_h, extra) ==
  IF st.err # "none" THEN st
  ELSE [err |-> "none",
        row_heights |->
          [r \in DOMAIN st.row_heights |->
             MaxOf({st.row_heights[r]} \cup
                   {(max_h[<<c, r>>] + extra) * y_margin :
                      c \in {x \in DOMAIN st.col_widths : <<x, r>> \in DOMAIN max_h}})],
        col_widths |->
          [c \in DOMAIN st.col_widths |->
             MaxOf({st.col_widths[c]} \cup
                   {(max_v[<<c, r>>] + extra) * x_margin :
                      r \in {x \in DOMAIN st.row_heights : <<c, x>> \in DOMAIN max_v}})]]

\* make_grids, lines 824-825: col_widths[0] and col_widths[-1] are at least
\* border_min_width; an empty list raises IndexError
GridBorders(st) ==
  IF st.err # "none" THEN st
  ELSE IF ListLen(st.col_widths) = 0 THEN [st EXCEPT !.err = "IndexError"]
  ELSE [st EXCEPT !.col_widths =
          [c \in DOMAIN st.col_widths |->
             IF c = 0 \/ c = ListLen(st.col_widths) - 1
             THEN Max(border_min_width, st.col_widths[c]) ELSE st.col_widths[c]]]

\* make_grids that asks for (k + 1) * margin for a cell whose highest lane is k
make_grids_narrow(mr, mc, max_v, max_h, nodes, locs, sizes) ==
  GridBorders(GridLanes(GridNodes(nodes, 1,
                                  [err |-> "none", row_heights |-> Zeros(mr + 2),
                                   col_widths |-> Zeros(mc + 2)],
                                  locs, sizes),
                        max_v, max_h, 1))

\* make_grids(max_row, max_col, max_vedge_indices, max_hedge_indices, nodes,
\* locations, sizes): [err, row_heights, col_widths], the two lists indexed
\* from 0, or the exception of the call
make_grids(mr, mc, max_v, max_h, nodes, locs, sizes) ==
  GridBorders(GridLanes(GridNodes(nodes, 1,
                                  [err |-> "none", row_heights |-> Zeros(mr + 2),
                                   col_widths |-> Zeros(mc + 2)],
                                  locs, sizes),
                        max_v, max_h, 2))

----------------------------------------------------------------------------
\* Stage 7: calculate_coordinates.

Point(px, py) == [x |-> px, y |-> py]

\* list[i] for a list held as a function on 0..n-1
PyGet(list, i) == list[PyIndex(i, ListLen(list))]

\* row -> largest horizontal lane of the row (lines 880-883)
row_max_idxs(max_h) ==
  [r \in {cell[2] : cell \in DOMAIN max_h} |->
     MaxOf({max_h[cell] : cell \in {x \in DOMAIN max_h : x[2] = r}})]

\* the margin added for the horizontal lanes of row r
LaneMargin(rmi, r) == IF r \in DOMAIN rmi THEN y_margin * (rmi[r] + 2) ELSE 0

RECURSIVE GridX(_, _)
\* x of grid column c: the widths of the columns -1 .. c-1 plus their margins
GridX(cw, c) == IF c <= -1 THEN 0 ELSE GridX(cw, c - 1) + PyGet(cw, c - 1) + col_margin

RECURSIVE GridY(_, _, _)
\* y of grid row r
GridY(rh, rmi, r) ==
  IF r <= -1 THEN row_margin * 2 + LaneMargin(rmi, 0)
  ELSE GridY(rh, rmi, r - 1) + PyGet(rh, r - 1) + row_margin * 2 + LaneMargin(rmi, r)

\* the keys of grid_coords
InGridCoords(mr, mc, c, r) == -1 <= c /\ c <= mc + 1 /\ -1 <= r /\ r <= mr + 1

\* Lines 894-907: the loops over range(-1, max_row + 2) and
\* range(-1, max_col + 2) read col_widths[col] and row_heights[row]; a list
\* too short for an index raises IndexError
grid_coords_error(mr, mc, rh, cw) ==
  IF /\ mr + 1 >= -1
     /\ \/ \E c \in (-1)..(mc + 1) : ~ PyIndexOk(c, ListLen(cw))
        \/ \E r \in (-1)..(mr + 1) : ~ PyIndexOk(r, ListLen(rh))
  THEN "IndexError" ELSE "none"

\* Lines 910-915 for one node: locations[node], grid_coords[grid_loc],
\* col_widths[col], col_widths[col + 1], row_heights[row], node_sizes[node]
node_coord_error(n, mr, mc, rh, cw, locs, sizes) ==
  IF n \notin DOMAIN locs THEN "KeyError"
  ELSE IF ~ InGridCoords(mr, mc, locs[n].col, locs[n].row) THEN "KeyError"
  ELSE IF \/ ~ PyIndexOk(locs[n].col, ListLen(cw))
          \/ ~ PyIndexOk(locs[n].col + 1, ListLen(cw))
          \/ ~ PyIndexOk(locs[n].row, ListLen(rh))
  THEN "IndexError"
  ELSE IF n \notin DOMAIN sizes THEN "KeyError"
  ELSE "none"

\* lines 909-921: the anchor of a placed node
node_coord(loc, rh, cw, rmi, node_size) ==
  Point(GridX(cw, loc.col)
          + (FloorDiv(PyGet(cw, loc.col) + PyGet(cw, loc.col + 1), 2)
             - FloorDiv(node_size.width, 2)),
        GridY(rh, rmi, loc.row)
          + (FloorDiv(PyGet(rh, loc.row), 2) - FloorDiv(node_size.height, 2)))

find_nonintersecting_y(mr, mc, rh, rmi, r, starting_col, next_col, default_y) ==
  IF \E c \in Min(starting_col, next_col)..Max(starting_col, next_col) : InGridCoords(mr, mc, c, r)
  THEN GridY(rh, rmi, r) + PyGet(rh, r)
  ELSE default_y

\* SegmentedEdge.add_coord on a coordinate list whose entries carry a flag
\* shared: the entry is the one Point object the waypoint loop reuses.
add_coord(coords, pt) ==
  LET n == Len(coords)
  IN  IF n >= 2 /\ ((coords[n].x = coords[n - 1].x /\ coords[n - 1].x = pt.x)
                    \/ (coords[n].y = coords[n - 1].y /\ coords[n - 1].y = pt.y))
      THEN [coords EXCEPT ![n] = pt]
      ELSE Append(coords, pt)

SharedPoint(px, py, sh) == [x |-> px, y |-> py, shared |-> sh]

\* assigning curr_scene_pt.x / .y changes every list entry that is that object
Mutate(coords, px, py) ==
  [k \in 1..Len(coords) |-> IF coords[k].shared THEN SharedPoint(px, py, TRUE) ELSE coords[k]]

\* line 967 alone: curr_scene_pt.x is assigned, then line 970 raises
MutateX(coords, px) ==
  [k \in 1..Len(coords) |->
     IF coords[k].shared THEN SharedPoint(px, coords[k].y, TRUE) ELSE coords[k]]

RECURSIVE WaypointLoop(_, _, _, _, _, _, _, _, _)
\* Lines 963-1006, for the interior waypoints points[2..Len-1] (1-based);
\* st = [err, coords, prev_grid, prev_pt]
WaypointLoop(e, k, st, mr, mc, rh, cw, rmi, dst_x) ==
  IF st.err # "none" \/ k > Len(e.points) - 1 THEN st
  ELSE
  LET pt          == e.points[k]
      pt_idx      == k - 2
      penultimate == pt_idx + 1 = Len(e.points) - 2
      vertical    == pt.col = st.prev_grid.col
      horizontal  == ~ vertical /\ pt.row = st.prev_grid.row
      next_idx    == e.points[k + 1].idx
      base_y      == GridY(rh, rmi, pt.row - 1) + PyGet(rh, pt.row - 1) + row_margin
      cx == IF vertical THEN st.prev_pt.x
            ELSE IF penultimate THEN dst_x + e.end_index[1] * x_margin
                 ELSE GridX(cw, pt.col) + next_idx * x_margin
      cy == IF vertical
            THEN IF penultimate THEN base_y ELSE base_y + (next_idx + y_margin)
            ELSE st.prev_pt.y
  IN  IF vertical /\ pt.row = st.prev_grid.row THEN [st EXCEPT !.err = "AssertionError"]
      ELSE IF ~ vertical /\ ~ horizontal THEN [st EXCEPT !.err = "AssertionError"]
      ELSE IF vertical /\ ~ InGridCoords(mr, mc, pt.col, pt.row - 1)
           THEN [st EXCEPT !.err = "KeyError", !.coords = MutateX(st.coords, st.prev_pt.x)]
      ELSE IF horizontal /\ ~ penultimate /\ ~ InGridCoords(mr, mc, pt.col, pt.row)
           THEN [st EXCEPT !.err = "KeyError"]
      ELSE IF horizontal /\ penultimate /\ e.end_index = None THEN [st EXCEPT !.err = "AssertionError"]
      ELSE WaypointLoop(e, k + 1,
             [err |-> "none",
              coords |-> add_coord(Mutate(st.coords, cx, cy), SharedPoint(cx, cy, TRUE)),
              prev_grid |-> [col |-> pt.col, row |-> pt.row],
              prev_pt |-> Point(cx, cy)],
             mr, mc, rh, cw, rmi, dst_x)

\* edge_polyline_end that ends the polyline on the target's anchor row
edge_polyline_end_on_anchor(e, lp, end_x, dst_y) ==
  IF lp.err # "none" THEN [err |-> lp.err, coords |-> lp.coords]
  ELSE IF e.max_end_index = None THEN [err |-> "AssertionError", coords |-> lp.coords]
  ELSE [err |-> "none",
        coords |-> add_coord(IF end_x # lp.prev_pt.x
                             THEN add_coord(lp.coords, SharedPoint(end_x, lp.prev_pt.y, FALSE))
                             ELSE lp.coords,
                             SharedPoint(end_x, dst_y, FALSE))]

\* Lines 1008-1017: the last two points of the polyline, after the loop
edge_polyline_end(e, lp, end_x, dst_y) ==
  IF lp.err # "none" THEN [err |-> lp.err, coords |-> lp.coords]
  ELSE IF e.max_end_index = None THEN [err |-> "AssertionError", coords |-> lp.coords]
  ELSE [err |-> "none",
        coords |-> add_coord(IF end_x # lp.prev_pt.x
                             THEN add_coord(lp.coords, SharedPoint(end_x, lp.prev_pt.y, FALSE))
                             ELSE lp.coords,
                             SharedPoint(end_x, dst_y - y_margin, FALSE))]

\* edge.coordinates as the call finds it: points of the caller, none of them
\* the Point object that the waypoint loop reuses
HeldCoordinates(e) ==
  [k \in 1..Len(e.coordinates) |-> SharedPoint(e.coordinates[k].x, e.coordinates[k].y, FALSE)]

\* Lines 934-1006: the first two points are added to edge.coordinates as it
\* is (append, then add_coord), then the waypoint loop
edge_polyline_from(e, locs, dst_loc, mr, mc, rh, cw, rmi, dst_size, start_x, start_y, y0) ==
  edge_polyline_end(e,
    WaypointLoop(e, 2,
                 [err |-> "none",
                  coords |-> add_coord(Append(HeldCoordinates(e),
                                              SharedPoint(start_x, start_y, FALSE)),
                                       SharedPoint(start_x, y0, FALSE)),
                  prev_grid |-> [col |-> locs[e.src].col + 1, row |-> locs[e.src].row + 1],
                  prev_pt |-> Point(start_x, y0)],
                 mr, mc, rh, cw, rmi, dst_loc.x + FloorDiv(dst_size.width, 2)),
    dst_loc.x + FloorDiv(dst_size.width, 2)
      - FloorDiv(x_margin * ((IF e.max_end_index = None THEN 0 ELSE e.max_end_index[1]) + 1), 2)
      + e.points[Len(e.points)].idx * x_margin,
    dst_loc.y)

\* Lines 924-1017 for one edge: [err, coords] with coords a list of
\* SharedPoint
edge_polyline(e, locs, src_loc, dst_loc, mr, mc, rh, cw, rmi, src_size, dst_size) ==
  edge_polyline_from(e, locs, dst_loc, mr, mc, rh, cw, rmi, dst_size,
    src_loc.x + FloorDiv(src_size.width, 2) - FloorDiv(x_margin * (e.max_start_index + 1), 2)
      + e.points[1].idx * x_margin,
    src_loc.y + src_size.height,
    IF Len(e.points) > 1
    THEN find_nonintersecting_y(mr, mc, rh, rmi, locs[e.src].row, locs[e.src].col,
                                e.points[2].col, src_loc.y + src_size.height)
         + row_margin + e.points[2].idx * y_margin
    ELSE src_loc.y + src_size.height)

\* the Point values of a coordinate list
PlainPoints(coords) == [k \in 1..Len(coords) |-> Point(coords[k].x, coords[k].y)]

\* The list `edges` may hold one SegmentedEdge object more than once.  An
\* entry of the list is a SegmentedEdge, or [same_as |-> j]: the object of
\* entry j once more.
RECURSIVE ObjectAt(_, _)
\* the index of the entry that holds the object of entry k
ObjectAt(es, k) == IF "same_as" \in DOMAIN es[k] THEN ObjectAt(es, es[k].same_as) ELSE k

\* the objects of the list, entry by entry
Objects(es) == [k \in 1..Len(es) |-> es[ObjectAt(es, k)]]

\* Lines 925-1017 for one edge: [err, coords].  Lines 925-928 raise KeyError
\* for an edge whose end is not among the placed nodes, line 930 raises
\* IndexError for an edge without points; edge.coordinates is as it was then.
edge_loop_turn(e, mr, mc, rh, cw, locs, rmi, ncoords, sizes) ==
  IF e.src \notin DOMAIN ncoords \/ e.dst \notin DOMAIN ncoords
  THEN [err |-> "KeyError", coords |-> HeldCoordinates(e)]
  ELSE IF e.points = <<>>
  THEN [err |-> "IndexError", coords |-> HeldCoordinates(e)]
  ELSE edge_polyline(e, locs, ncoords[e.src], ncoords[e.dst],
                     mr, mc, rh, cw, rmi, sizes[e.src], sizes[e.dst])

\* the edge loop's state after a turn that ended as `line` on the object of
\* entry t: edge.coordinates of that object is what the turn left in it
edge_loop_next(st, t, line) ==
  [err |-> line.err,
   edges |-> [st.edges EXCEPT ![t].coordinates = PlainPoints(line.coords)]]

RECURSIVE edge_loop(_, _, _, _, _, _, _, _, _, _)
\* Lines 924-1017: the loop over `edges`, one object after the other; a turn
\* adds to what edge.coordinates holds by then.  st = [err, edges]
edge_loop(k, st, mr, mc, rh, cw, locs, rmi, ncoords, sizes) ==
  IF st.err # "none" \/ k > Len(st.edges) THEN st
  ELSE edge_loop(k + 1,
         edge_loop_next(st, ObjectAt(st.edges, k),
           edge_loop_turn(st.edges[ObjectAt(st.edges, k)],
                          mr, mc, rh, cw, locs, rmi, ncoords, sizes)),
         mr, mc, rh, cw, locs, rmi, ncoords, sizes)

\* Lines 1019-1021: the LayoutResult, or the error of the edge loop;
\* segmented is the caller's list of SegmentedEdge after the call.  The dict
\* of line 1019 keeps, for edges with the same (src, dst), the last one.
LayoutResult(ncoords, st) ==
  IF st.err # "none"
  THEN [err |-> st.err, nodes |-> EmptyMap, edges |-> EmptyMap, segmented |-> Objects(st.edges)]
  ELSE [err |-> "none", nodes |-> ncoords,
        edges |-> [p \in {<<Objects(st.edges)[k].src, Objects(st.edges)[k].dst>> :
                            k \in 1..Len(st.edges)} |->
                     Objects(st.edges)[CHOOSE k \in 1..Len(st.edges) :
                        /\ <<Objects(st.edges)[k].src, Objects(st.edges)[k].dst>> = p
                        /\ \A j \in (k + 1)..Len(st.edges) :
                              <<Objects(st.edges)[j].src, Objects(st.edges)[j].dst>> # p
                       ].coordinates],
        segmented |-> Objects(st.edges)]

\* Lines 924-1021: the polyline of every routed edge, and the result
edge_polylines(mr, mc, rh, cw, locs, rmi, ncoords, es, sizes) ==
  LayoutResult(ncoords,
    edge_loop(1, [err |-> "none", edges |-> es], mr, mc, rh, cw, locs, rmi, ncoords, sizes))

\* Lines 909-921: the coordinates of every node, or the first exception of
\* the loop over nodes
node_coordinates(mr, mc, rh, cw, locs, rmi, nodes, es, sizes) ==
  IF FirstError([k \in 1..Len(nodes) |->
                   node_coord_error(nodes[k], mr, mc, rh, cw, locs, sizes)]) # "none"
  THEN [err |-> FirstError([k \in 1..Len(nodes) |->
                              node_coord_error(nodes[k], mr, mc, rh, cw, locs, sizes)]),
        nodes |-> EmptyMap, edges |-> EmptyMap, segmented |-> Objects(es)]
  ELSE
  edge_polylines(mr, mc, rh, cw, locs, rmi,
    [n \in SeqToSet(nodes) |-> node_coord(locs[n], rh, cw, rmi, sizes[n])],
    es, sizes)

\* calculate_coordinates: [err, nodes, edges, segmented]
calculate_coordinates(mr, mc, rh, cw, locs, max_h, nodes, es, sizes) ==
  IF grid_coords_error(mr, mc, rh, cw) # "none"
  THEN [err |-> grid_coords_error(mr, mc, rh, cw),
        nodes |-> EmptyMap, edges |-> EmptyMap, segmented |-> Objects(es)]
  ELSE
  node_coordinates(mr, mc, rh, cw, locs, row_max_idxs(max_h), nodes, es, sizes)

----------------------------------------------------------------------------
\* layout() as one call: the stages one after the other, each on the results
\* of the stages before it.

\* what a call that raised leaves behind: the exception and no LayoutResult
Raised(e, at) ==
  [err |-> e, err_at |-> at, nodes |-> EmptyMap, edges |-> EmptyMap, segmented |-> <<>>]

\* what the last stage leaves behind: its LayoutResult, or its exception
Returned(r) ==
  [err |-> r.err, err_at |-> IF r.err = "none" THEN "none" ELSE "calculate_coordinates",
   nodes |-> r.nodes, edges |-> r.edges,
   segmented |-> IF r.err = "none" THEN r.segmented ELSE <<>>]

\* route_edges, lines 573-576: the state after a call of route_edge
route_edges_next(st, r) ==
  IF r.err = "none"
  THEN [err |-> "none", v |-> r.v, h |-> r.h, edges |-> Append(st.edges, r.edge)]
  ELSE [err |-> r.err, v |-> r.v, h |-> r.h, edges |-> st.edges]

RECURSIVE route_edges_loop(_, _, _, _, _)
\* route_edges, lines 573-576: the loop over dg.edges()
route_edges_loop(todo, st, locs, mc, mr) ==
  IF todo = <<>> \/ st.err # "none" THEN st
  ELSE route_edges_loop(Tail(todo),
         route_edges_next(st, route_edge(st.v, st.h, locs, mc, mr, Head(todo)[1], Head(todo)[2])),
         locs, mc, mr)

\* route_edges, lines 578-584: the edge indices, once every edge is routed
route_edges_end(st) ==
  IF st.err # "none" THEN st
  ELSE [st EXCEPT !.edges = set_out_edge_indices(set_in_edge_indices(st.edges))]

\* route_edges(dg, node_locations, max_col, max_row): [err, v, h, edges]
route_edges(g, locs, mc, mr) ==
  IF EdgeLayoutState_error(mc, mr, locs) # "none"
  THEN [err |-> EdgeLayoutState_error(mc, mr, locs),
        v |-> empty_edge_grid, h |-> empty_edge_grid, edges |-> <<>>]
  ELSE
  route_edges_end(
    route_edges_loop(graph_edges(g),
                     [err |-> "none", v |-> empty_edge_grid, h |-> empty_edge_grid, edges |-> <<>>],
                     locs, mc, mr))

\* layout, lines 240-255: calculate_coordinates on the grids
layout_coordinates(g, sizes, locs, mc, mr, rt, grids) ==
  IF grids.err # "none" THEN Raised(grids.err, "make_grids")
  ELSE
  Returned(calculate_coordinates(mr, mc, grids.row_heights, grids.col_widths, locs,
                                 calculate_max_edge_indices(rt.h), g.nodes, rt.edges, sizes))

\* layout, lines 222-237: calculate_max_edge_indices and make_grids
layout_grids(g, sizes, locs, mc, mr, rt) ==
  IF rt.err # "none"
  THEN Raised(rt.err, IF rt.err = "AssertionError" THEN "first_unused_index"
                      ELSE IF EdgeLayoutState_error(mc, mr, locs) # "none" THEN "EdgeLayoutState"
                      ELSE "route_edge")
  ELSE layout_coordinates(g, sizes, locs, mc, mr, rt,
         make_grids(mr, mc, calculate_max_edge_indices(rt.v), calculate_max_edge_indices(rt.h),
                    g.nodes, locs, sizes))

\* layout, line 219: route_edges on the placed nodes
layout_routes(g, sizes, rows, placed) ==
  layout_grids(g, sizes, locations(placed.cols, rows.rows), placed.max_col, rows.max,
    route_edges(g, locations(placed.cols, rows.rows), placed.max_col, rows.max))

\* layout, lines 214-215: assign_rows and assign_columns
layout_columns(g, sizes, key, order, acyclic, rows) ==
  layout_routes(g, sizes, rows,
    assign_columns(acyclic, assign_rows(order, rows.rows, key), key))

\* layout, lines 210-213: to_acyclic_graph and calculate_max_row
layout_rows(g, sizes, key, order, acyclic) ==
  layout_columns(g, sizes, key, order, acyclic, calculate_max_row(acyclic, order))

\* layout, lines 207-210
layout_sorted(g, sizes, key, sorted) ==
  IF sorted.err # "none" THEN Raised(sorted.err, "quasi_topological_sort")
  ELSE layout_rows(g, sizes, key, sorted.order, to_acyclic_graph(g, sorted.order))

\* layout(dg, node_sizes, node_compare_key): [err, err_at, nodes, edges,
\* segmented], the LayoutResult and the list of SegmentedEdge (line 255), or
\* the exception of the call
layout(g, sizes, key) ==
  layout_sorted(g, sizes, key, quasi_topological_sort(g))

----------------------------------------------------------------------------
\* The caller and the stages of layout().

\* EmberWindow.setup: the edges of its graph in the order of its add_edge
\* calls, with 1 .. 6 for the nodes 'a' .. 'f'
DemoEdges == << <<1, 2>>, <<1, 3>>, <<2, 4>>, <<3, 4>>, <<4, 5>>, <<2, 5>>, <<5, 6>>, <<4, 6>> >>

DemoNode == UNION {{DemoEdges[k][1], DemoEdges[k][2]} : k \in 1..Len(DemoEdges)}

\* every node identifier a caller of this module uses
AnyNode == Node \cup PlacedNode \cup DemoNode

\* The comparison keys a caller may pass: the node identifier (all keys
\* differ), or one key for every node (all keys tie).
KeyChoices == {[n \in AnyNode |-> n], [n \in AnyNode |-> 0]}

\* NodeSize(width, height)
NodeSize(w, h) == [width |-> w, height |-> h]

\* Nothing has been computed yet.
InitFields ==
  /\ err = "none"
  /\ err_at = "none"
  /\ node_compare_key \in KeyChoices
  /\ ordered_nodes = <<>>
  /\ dag = EmptyGraph
  /\ max_rows = EmptyMap
  /\ max_row = 0
  /\ row_to_nodes = <<>>
  /\ cols = EmptyMap
  /\ max_col = 0
  /\ vertical_edges = EmptyMap
  /\ horizontal_edges = EmptyMap
  /\ edges = <<>>
  /\ row_heights = <<>>
  /\ col_widths = <<>>
  /\ node_coords = EmptyMap
  /\ edge_coords = EmptyMap
  /\ dg_copy = EmptyGraph
  /\ tmp_nodes = <<>>
  /\ used_indices = {}
  /\ edge_index = None

\* The state when the caller starts to build the graph.
InitLayout ==
  /\ InitFields
  /\ dg = EmptyGraph
  /\ pc = "build"
  /\ layout_options = DEFAULT_LAYOUT

\* The caller has a size for every node.
Init ==
  /\ InitLayout
  /\ node_sizes = [n \in AnyNode |-> NodeSize(node_width, node_height)]

\* The dicts of sizes a caller may pass: any set of nodes has a size.
SizeChoices == {[n \in S |-> NodeSize(node_width, node_height)] : S \in SUBSET Node}

\* The caller's dict of sizes may lack nodes of the graph.
InitSizes ==
  /\ InitLayout
  /\ node_sizes \in SizeChoices

\* the caller: g.add_node(n)
AddNode(n) ==
  /\ pc = "build"
  /\ n \notin DOMAIN dg.adj
  /\ dg' = add_node(dg, n)
  /\ UNCHANGED <<pc, err, err_at, node_compare_key, ordered_nodes, dag, max_rows, max_row,
                 row_to_nodes, cols, max_col,
                 vertical_edges, horizontal_edges, edges, row_heights, col_widths,
                 node_coords, edge_coords>>
  /\ UNCHANGED <<node_sizes, dg_copy, tmp_nodes>>
  /\ UNCHANGED <<layout_options, used_indices, edge_index>>

\* the caller: g.add_edge(u, v)
AddEdge(u, v, limit) ==
  /\ pc = "build"
  /\ number_of_edges(dg) < limit
  /\ ~ (u \in DOMAIN dg.adj /\ InSeq(v, dg.adj[u]))
  /\ dg' = add_edge(dg, u, v)
  /\ UNCHANGED <<pc, err, err_at, node_compare_key, ordered_nodes, dag, max_rows, max_row,
                 row_to_nodes, cols, max_col,
                 vertical_edges, horizontal_edges, edges, row_heights, col_widths,
                 node_coords, edge_coords>>
  /\ UNCHANGED <<node_sizes, dg_copy, tmp_nodes>>
  /\ UNCHANGED <<layout_options, used_indices, edge_index>>

\* EmberWindow.setup: the next g.add_edge call
AddDemoEdge ==
  /\ pc = "build"
  /\ number_of_edges(dg) < Len(DemoEdges)
  /\ dg' = add_edge(dg, DemoEdges[number_of_edges(dg) + 1][1], DemoEdges[number_of_edges(dg) + 1][2])
  /\ UNCHANGED <<pc, err, err_at, node_compare_key, ordered_nodes, dag, max_rows, max_row,
                 row_to_nodes, cols, max_col,
                 vertical_edges, horizontal_edges, edges, row_heights, col_widths,
                 node_coords, edge_coords, node_sizes, dg_copy, tmp_nodes>>
  /\ UNCHANGED <<layout_options, used_indices, edge_index>>

\* layout(): ordered_nodes = quasi_topological_sort(dg)
QuasiTopologicalSort ==
  /\ pc = "build"
  /\ LET r == quasi_topological_sort(dg)
     IN  /\ err' = r.err
         /\ err_at' = IF r.err = "none" THEN "none" ELSE "quasi_topological_sort"
         /\ ordered_nodes' = r.order
         /\ pc' = IF r.err = "none" THEN "to_acyclic_graph" ELSE "error"
  /\ UNCHANGED <<dg, node_compare_key, dag, max_rows, max_row, row_to_nodes, cols, max_col,
                 vertical_edges, horizontal_edges, edges, row_heights, col_widths,
                 node_coords, edge_coords>>
  /\ UNCHANGED <<node_sizes, dg_copy, tmp_nodes>>
  /\ UNCHANGED <<layout_options, used_indices, edge_index>>

\* layout(): dag = to_acyclic_graph(dg, ordered_nodes)
ToAcyclicGraph ==
  /\ pc = "to_acyclic_graph"
  /\ dag' = to_acyclic_graph(dg, ordered_nodes)
  /\ pc' = "calculate_max_row"
  /\ UNCHANGED <<dg, err, err_at, node_compare_key, ordered_nodes, max_rows, max_row, row_to_nodes, cols, max_col,
                 vertical_edges, horizontal_edges, edges, row_heights, col_widths,
                 node_coords, edge_coords>>
  /\ UNCHANGED <<node_sizes, dg_copy, tmp_nodes>>
  /\ UNCHANGED <<layout_options, used_indices, edge_index>>

\* layout(): max_rows, max_row = calculate_max_row(dag, ordered_nodes)
CalculateMaxRow ==
  /\ pc = "calculate_max_row"
  /\ LET r == calculate_max_row(dag, ordered_nodes)
     IN  /\ max_rows' = r.rows
         /\ max_row' = r.max
  /\ pc' = "assign_rows"
  /\ UNCHANGED <<dg, err, err_at, node_compare_key, ordered_nodes, dag, row_to_nodes, cols, max_col,
                 vertical_edges, horizontal_edges, edges, row_heights, col_widths,
                 node_coords, edge_coords>>
  /\ UNCHANGED <<node_sizes, dg_copy, tmp_nodes>>
  /\ UNCHANGED <<layout_options, used_indices, edge_index>>

\* layout(): rows, row_to_nodes = assign_rows(ordered_nodes, max_rows, node_compare_key)
AssignRows ==
  /\ pc = "assign_rows"
  /\ row_to_nodes' = assign_rows(ordered_nodes, max_rows, node_compare_key)
  /\ pc' = "assign_columns"
  /\ UNCHANGED <<dg, err, err_at, node_compare_key, ordered_nodes, dag, max_rows, max_row, cols, max_col,
                 vertical_edges, horizontal_edges, edges, row_heights, col_widths,
                 node_coords, edge_coords>>
  /\ UNCHANGED <<node_sizes, dg_copy, tmp_nodes>>
  /\ UNCHANGED <<layout_options, used_indices, edge_index>>

\* layout(): cols, locations, max_col = assign_columns(dag, row_to_nodes, node_compare_key)
AssignColumns ==
  /\ pc = "assign_columns"
  /\ LET r == assign_columns(dag, row_to_nodes, node_compare_key)
     IN  /\ cols' = r.cols
         /\ max_col' = r.max_col
  /\ pc' = "route_edges"
  /\ UNCHANGED <<dg, err, err_at, node_compare_key, ordered_nodes, dag, max_rows, max_row, row_to_nodes,
                 vertical_edges, horizontal_edges, edges, row_heights, col_widths,
                 node_coords, edge_coords>>
  /\ UNCHANGED <<node_sizes, dg_copy, tmp_nodes>>
  /\ UNCHANGED <<layout_options, used_indices, edge_index>>

\* route_edges: state = EdgeLayoutState(max_col, max_row, node_locations)
RouteEdgesBegin ==
  /\ pc = "route_edges"
  /\ IF EdgeLayoutState_error(max_col, max_row, locations(cols, max_rows)) # "none"
     THEN /\ err' = EdgeLayoutState_error(max_col, max_row, locations(cols, max_rows))
          /\ err_at' = "EdgeLayoutState"
          /\ pc' = "error"
          /\ UNCHANGED <<vertical_edges, horizontal_edges>>
     ELSE /\ vertical_edges' = empty_edge_grid
          /\ horizontal_edges' = empty_edge_grid
          /\ pc' = "route_edge"
          /\ UNCHANGED <<err, err_at>>
  /\ UNCHANGED <<dg, node_compare_key, ordered_nodes, dag, max_rows, max_row,
                 row_to_nodes, cols, max_col,
                 edges, row_heights, col_widths, node_coords, edge_coords>>
  /\ UNCHANGED <<node_sizes, dg_copy, tmp_nodes>>
  /\ UNCHANGED <<layout_options, used_indices, edge_index>>

\* route_edges: what the loop does with the outcome r of a call of route_edge
RouteEdgeReturn(r) ==
  /\ err' = r.err
  /\ err_at' = IF r.err = "none" THEN "none"
                ELSE IF r.err = "AssertionError" THEN "first_unused_index"
                ELSE "route_edge"
  /\ pc' = IF r.err = "none" THEN "route_edge" ELSE "error"
  /\ vertical_edges' = r.v
  /\ horizontal_edges' = r.h
  /\ edges' = IF r.err = "none" THEN Append(edges, r.edge) ELSE edges

\* route_edges: one turn of the loop over dg.edges(), a call of route_edge
RouteEdge ==
  /\ pc = "route_edge"
  /\ Len(edges) < number_of_edges(dg)
  /\ RouteEdgeReturn(route_edge(vertical_edges, horizontal_edges, locations(cols, max_rows),
                                max_col, max_row,
                                graph_edges(dg)[Len(edges) + 1][1],
                                graph_edges(dg)[Len(edges) + 1][2]))
  /\ UNCHANGED <<dg, node_compare_key, ordered_nodes, dag, max_rows, max_row, row_to_nodes, cols, max_col,
                 row_heights, col_widths, node_coords, edge_coords>>
  /\ UNCHANGED <<node_sizes, dg_copy, tmp_nodes>>
  /\ UNCHANGED <<layout_options, used_indices, edge_index>>

\* route_edges: after the loop, set_in_edge_indices and set_out_edge_indices
RouteEdgesEnd ==
  /\ pc = "route_edge"
  /\ Len(edges) = number_of_edges(dg)
  /\ edges' = set_out_edge_indices(set_in_edge_indices(edges))
  /\ pc' = "make_grids"
  /\ UNCHANGED <<dg, err, err_at, node_compare_key, ordered_nodes, dag, max_rows, max_row,
                 row_to_nodes, cols, max_col,
                 vertical_edges, horizontal_edges, row_heights, col_widths,
                 node_coords, edge_coords>>
  /\ UNCHANGED <<node_sizes, dg_copy, tmp_nodes>>
  /\ UNCHANGED <<layout_options, used_indices, edge_index>>

\* layout(): what becomes of the outcome r of make_grids
MakeGridsReturn(r) ==
  /\ err' = r.err
  /\ err_at' = IF r.err = "none" THEN "none" ELSE "make_grids"
  /\ pc' = IF r.err = "none" THEN "calculate_coordinates" ELSE "error"
  /\ row_heights' = IF r.err = "none" THEN r.row_heights ELSE row_heights
  /\ col_widths' = IF r.err = "none" THEN r.col_widths ELSE col_widths

\* MakeGrids that takes the size (node_width, node_height) for a node that
\* the caller's dict lacks
MakeGrids_default_size ==
  /\ pc = "make_grids"
  /\ MakeGridsReturn(make_grids(max_row, max_col,
                                calculate_max_edge_indices(vertical_edges),
                                calculate_max_edge_indices(horizontal_edges),
                                dg.nodes, locations(cols, max_rows),
                                [n \in DOMAIN cols |->
                                   IF n \in DOMAIN node_sizes THEN node_sizes[n]
                                   ELSE NodeSize(node_width, node_height)]))
  /\ UNCHANGED <<dg, node_compare_key, ordered_nodes, dag, max_rows, max_row, row_to_nodes, cols, max_col,
                 vertical_edges, horizontal_edges, edges, node_coords, edge_coords>>
  /\ UNCHANGED <<node_sizes, dg_copy, tmp_nodes>>
  /\ UNCHANGED <<layout_options, used_indices, edge_index>>

\* layout(): calculate_max_edge_indices twice, then make_grids
MakeGrids ==
  /\ pc = "make_grids"
  /\ MakeGridsReturn(make_grids(max_row, max_col,
                                calculate_max_edge_indices(vertical_edges),
                                calculate_max_edge_indices(horizontal_edges),
                                dg.nodes, locations(cols, max_rows), node_sizes))
  /\ UNCHANGED <<dg, node_compare_key, ordered_nodes, dag, max_rows, max_row, row_to_nodes, cols, max_col,
                 vertical_edges, horizontal_edges, edges, node_coords, edge_coords>>
  /\ UNCHANGED <<node_sizes, dg_copy, tmp_nodes>>
  /\ UNCHANGED <<layout_options, used_indices, edge_index>>

\* layout(): what becomes of the outcome r of calculate_coordinates
CalculateCoordinatesReturn(r) ==
  /\ err' = r.err
  /\ err_at' = IF r.err = "none" THEN "none" ELSE "calculate_coordinates"
  /\ pc' = IF r.err = "none" THEN "done" ELSE "error"
  /\ node_coords' = r.nodes
  /\ edge_coords' = r.edges
  /\ edges' = r.segmented

\* layout(): calculate_coordinates, the LayoutResult
CalculateCoordinates ==
  /\ pc = "calculate_coordinates"
  /\ CalculateCoordinatesReturn(
       calculate_coordinates(max_row, max_col, row_heights, col_widths,
                             locations(cols, max_rows),
                             calculate_max_edge_indices(horizontal_edges),
                             dg.nodes, edges, node_sizes))
  /\ UNCHANGED <<dg, node_compare_key, ordered_nodes, dag, max_rows, max_row, row_to_nodes, cols, max_col,
                 vertical_edges, horizontal_edges, row_heights, col_widths>>
  /\ UNCHANGED <<node_sizes, dg_copy, tmp_nodes>>
  /\ UNCHANGED <<layout_options, used_indices, edge_index>>

Next ==
  \/ \E n \in Node : AddNode(n)
  \/ \E u, v \in Node : AddEdge(u, v, MaxEdges)
  \/ QuasiTopologicalSort
  \/ ToAcyclicGraph
  \/ CalculateMaxRow
  \/ AssignRows
  \/ AssignColumns
  \/ RouteEdgesBegin
  \/ RouteEdge
  \/ RouteEdgesEnd
  \/ MakeGrids
  \/ CalculateCoordinates

Spec == Init /\ [][Next]_vars

\* The caller and the stages of layout() up to the placement of the nodes.
NextPlacement ==
  \/ \E n \in PlacedNode : AddNode(n)
  \/ \E u, v \in PlacedNode : AddEdge(u, v, MaxPlacedEdges)
  \/ QuasiTopologicalSort
  \/ ToAcyclicGraph
  \/ CalculateMaxRow
  \/ AssignRows
  \/ AssignColumns

SpecPlacement == Init /\ [][NextPlacement]_vars

\* every list that holds each element of S once
Orders(S) ==
  {o \in [1..Cardinality(S) -> S] : \A i, j \in 1..Cardinality(S) : o[i] = o[j] => i = j}

\* a caller of to_acyclic_graph(dg, ordered_nodes) that passes an order of its own
PassOrderedNodes(order) ==
  /\ pc = "build"
  /\ ordered_nodes' = order
  /\ pc' = "to_acyclic_graph"
  /\ UNCHANGED <<dg, err, err_at, node_compare_key, dag, max_rows, max_row, row_to_nodes, cols, max_col,
                 vertical_edges, horizontal_edges, edges, row_heights, col_widths,
                 node_coords, edge_coords>>
  /\ UNCHANGED <<node_sizes, dg_copy, tmp_nodes>>
  /\ UNCHANGED <<layout_options, used_indices, edge_index>>

\* to_acyclic_graph on any order of the nodes (ordered_nodes=None takes the
\* order of quasi_topological_sort), then calculate_max_row on its result.
NextOrder ==
  \/ \E n \in Node : AddNode(n)
  \/ \E u, v \in Node : AddEdge(u, v, MaxEdges)
  \/ QuasiTopologicalSort
  \/ \E order \in Orders(DOMAIN dg.adj) : PassOrderedNodes(order)
  \/ ToAcyclicGraph
  \/ CalculateMaxRow

SpecOrder == Init /\ [][NextOrder]_vars

\* first_unused_index is about to be called on a set of lanes in use.
InitFirstUnused ==
  /\ dg = EmptyGraph
  /\ pc = "first_unused_index"
  /\ err = "none"
  /\ err_at = "none"
  /\ node_compare_key = [n \in AnyNode |-> n]
  /\ ordered_nodes = <<>>
  /\ dag = EmptyGraph
  /\ max_rows = EmptyMap
  /\ max_row = 0
  /\ row_to_nodes = <<>>
  /\ cols = EmptyMap
  /\ max_col = 0
  /\ vertical_edges = EmptyMap
  /\ horizontal_edges = EmptyMap
  /\ edges = <<>>
  /\ row_heights = <<>>
  /\ col_widths = <<>>
  /\ node_coords = EmptyMap
  /\ edge_coords = EmptyMap
  /\ dg_copy = EmptyGraph
  /\ tmp_nodes = <<>>
  /\ node_sizes = EmptyMap
  /\ layout_options = DEFAULT_LAYOUT
  /\ used_indices \in SUBSET (0..MaxLane)
  /\ edge_index = None

\* the call first_unused_index(indices)
FirstUnusedIndex ==
  /\ pc = "first_unused_index"
  /\ LET f == first_unused_index(used_indices)
     IN  /\ err' = f.err
         /\ err_at' = IF f.err = "none" THEN "none" ELSE "first_unused_index"
         /\ edge_index' = IF f.err = "none" THEN Some(f.idx) ELSE None
         /\ pc' = IF f.err = "none" THEN "returned" ELSE "error"
  /\ UNCHANGED <<dg, node_compare_key, ordered_nodes, dag, max_rows, max_row, row_to_nodes,
                 cols, max_col, vertical_edges, horizontal_edges, edges,
                 row_heights, col_widths, node_coords, edge_coords,
                 node_sizes, dg_copy, tmp_nodes, layout_options, used_indices>>

SpecFirstUnused == InitFirstUnused /\ [][FirstUnusedIndex]_vars

\* EdgeLayoutState(max_col, max_row, {}) has been made: both grids have
\* max_col + 2 columns of max_row + 3 empty dicts.
InitLanes ==
  /\ dg = EmptyGraph
  /\ pc = "assign_edge"
  /\ err = "none"
  /\ err_at = "none"
  /\ node_compare_key = [n \in AnyNode |-> n]
  /\ ordered_nodes = <<>>
  /\ dag = EmptyGraph
  /\ max_rows = EmptyMap
  /\ max_row = LaneGridMaxRow
  /\ row_to_nodes = <<>>
  /\ cols = EmptyMap
  /\ max_col = LaneGridMaxCol
  /\ vertical_edges = empty_edge_grid
  /\ horizontal_edges = empty_edge_grid
  /\ edges = <<>>
  /\ row_heights = <<>>
  /\ col_widths = <<>>
  /\ node_coords = EmptyMap
  /\ edge_coords = EmptyMap
  /\ dg_copy = EmptyGraph
  /\ tmp_nodes = <<>>
  /\ node_sizes = EmptyMap
  /\ layout_options = DEFAULT_LAYOUT
  /\ used_indices = {}
  /\ edge_index = None

\* the number of entries of all the dicts of a grid
LaneEntries(grid) ==
  Cardinality(UNION {{<<cell, lane>> : lane \in DOMAIN grid[cell]} : cell \in DOMAIN grid})

\* the cells grid[col][row] that a span addresses, as Python indexes them
SpanCells(span, ncols, nrows) ==
  {<<PyIndex(span[k][1], ncols), PyIndex(span[k][2], nrows)>> : k \in 1..Len(span)}

\* what a call of assign_vertical_edge or assign_horizontal_edge leaves
\* behind: a is the outcome, used the lanes found in the cells of the span
AssignEdgeReturn(a, used, at) ==
  /\ err' = a.err
  /\ err_at' = IF a.err = "none" THEN "none"
                ELSE IF a.err = "AssertionError" THEN "first_unused_index" ELSE at
  /\ pc' = IF a.err = "none" THEN "assign_edge" ELSE "error"
  /\ used_indices' = IF a.err = "IndexError" THEN used_indices ELSE used
  /\ edge_index' = IF a.err = "none" THEN Some(a.idx) ELSE None

\* a call assign_vertical_edge(state.vertical_edges, edge, col, row, num_blocks)
AssignVerticalEdge(e, c, r, num_blocks) ==
  /\ pc = "assign_edge"
  /\ LaneEntries(vertical_edges) + LaneEntries(horizontal_edges) < MaxLaneEntries
  /\ LET a == assign_vertical_edge(vertical_edges, e, c, r, num_blocks, max_col + 2, max_row + 3)
         cells == SpanCells([k \in 1..(num_blocks + 1) |-> <<c, r + k - 1>>], max_col + 2, max_row + 3)
     IN  /\ vertical_edges' = a.grid
         /\ AssignEdgeReturn(a, UNION {DOMAIN CellOf(vertical_edges, cell) : cell \in cells},
                             "assign_vertical_edge")
  /\ UNCHANGED <<dg, node_compare_key, ordered_nodes, dag, max_rows, max_row, row_to_nodes,
                 cols, max_col, horizontal_edges, edges,
                 row_heights, col_widths, node_coords, edge_coords,
                 node_sizes, dg_copy, tmp_nodes, layout_options>>

\* a call assign_horizontal_edge(state.horizontal_edges, edge, col, row, num_blocks)
AssignHorizontalEdge(e, c, r, num_blocks) ==
  /\ pc = "assign_edge"
  /\ LaneEntries(vertical_edges) + LaneEntries(horizontal_edges) < MaxLaneEntries
  /\ LET a == assign_horizontal_edge(horizontal_edges, e, c, r, num_blocks, max_col + 2, max_row + 3)
         cells == SpanCells([k \in 1..(num_blocks + 1) |-> <<c + k - 1, r>>], max_col + 2, max_row + 3)
     IN  /\ horizontal_edges' = a.grid
         /\ AssignEdgeReturn(a, UNION {DOMAIN CellOf(horizontal_edges, cell) : cell \in cells},
                             "assign_horizontal_edge")
  /\ UNCHANGED <<dg, node_compare_key, ordered_nodes, dag, max_rows, max_row, row_to_nodes,
                 cols, max_col, vertical_edges, edges,
                 row_heights, col_widths, node_coords, edge_coords,
                 node_sizes, dg_copy, tmp_nodes, layout_options>>

\* Calls of the two functions on one pair of grids, with any edge, start cell
\* and length, in any order.
NextLanes ==
  \/ \E e \in LaneEdge, c \in LaneCol, r \in LaneRow, n \in 0..MaxBlocks :
        AssignVerticalEdge(e, c, r, n)
  \/ \E e \in LaneEdge, c \in LaneCol, r \in LaneRow, n \in 0..MaxBlocks :
        AssignHorizontalEdge(e, c, r, n)

SpecLanes == InitLanes /\ [][NextLanes]_vars

\* The add_edge calls of a caller whose graph has a node below an edge's
\* source with a free column on either side, self-loops, and nodes with two
\* and three predecessors.
CandidateEdges ==
  << <<5, 3>>, <<2, 1>>, <<1, 3>>, <<2, 4>>, <<3, 4>>, <<5, 4>>, <<1, 1>>, <<2, 2>> >>

RECURSIVE AddEdgesFrom(_, _, _, _)
\* g.add_edge(u, v) for the edges of es at the positions of keep, in the order of es
AddEdgesFrom(g, es, keep, i) ==
  IF i > Len(es) THEN g
  ELSE AddEdgesFrom(IF i \in keep THEN add_edge(g, es[i][1], es[i][2]) ELSE g, es, keep, i + 1)

\* The caller has built its graph from some of the calls of CandidateEdges.
InitSubgraph ==
  /\ InitFields
  /\ pc = "build"
  /\ layout_options = DEFAULT_LAYOUT
  /\ node_sizes = [n \in AnyNode |-> NodeSize(node_width, node_height)]
  /\ \E keep \in SUBSET (1..Len(CandidateEdges)) : dg = AddEdgesFrom(EmptyGraph, CandidateEdges, keep, 1)

\* layout() on a graph that is built.
NextSubgraph ==
  \/ QuasiTopologicalSort
  \/ ToAcyclicGraph
  \/ CalculateMaxRow
  \/ AssignRows
  \/ AssignColumns
  \/ RouteEdgesBegin
  \/ RouteEdge
  \/ RouteEdgesEnd
  \/ MakeGrids
  \/ CalculateCoordinates

SpecSubgraph == InitSubgraph /\ [][NextSubgraph]_vars

\* The sizes a caller may give a node: NodeSize(width, height).
NodeSizeChoices == {NodeSize(node_width, node_height), NodeSize(5, 3), NodeSize(101, 41)}

\* The LayoutOptions a caller may pass: the default, and margins of 0 and 1.
OptionChoices ==
  {DEFAULT_LAYOUT,
   [DEFAULT_LAYOUT EXCEPT !.col_margin = 0],
   [x_margin |-> 1, y_margin |-> 1, row_margin |-> 1, col_margin |-> 1],
   [x_margin |-> 0, y_margin |-> 0, row_margin |-> 0, col_margin |-> 0]}

\* The caller's calls of add_node and the calls of add_edge it may make after them.
GeometryNodes == <<1, 2, 3>>
GeometryEdges == << <<1, 2>>, <<1, 3>>, <<2, 3>> >>

RECURSIVE AddNodesFrom(_, _, _)
\* g after add_node(ns[i]), add_node(ns[i + 1]), ...
AddNodesFrom(g, ns, i) ==
  IF i > Len(ns) THEN g ELSE AddNodesFrom(add_node(g, ns[i]), ns, i + 1)

\* The caller has built a graph, has a size for each of its nodes and passes
\* its own LayoutOptions.
InitGeometry ==
  /\ InitFields
  /\ pc = "build"
  /\ layout_options \in OptionChoices
  /\ node_sizes \in [SeqToSet(GeometryNodes) -> NodeSizeChoices]
  /\ \E keep \in SUBSET (1..Len(GeometryEdges)) :
        dg = AddEdgesFrom(AddNodesFrom(EmptyGraph, GeometryNodes, 1), GeometryEdges, keep, 1)

SpecGeometry == InitGeometry /\ [][NextSubgraph]_vars

\* layout() on the graph of EmberWindow.setup, as far as it is built.
NextDemo ==
  \/ AddDemoEdge
  \/ QuasiTopologicalSort
  \/ ToAcyclicGraph
  \/ CalculateMaxRow
  \/ AssignRows
  \/ AssignColumns
  \/ RouteEdgesBegin
  \/ RouteEdge
  \/ RouteEdgesEnd
  \/ MakeGrids
  \/ CalculateCoordinates

SpecDemo == Init /\ [][NextDemo]_vars

\* layout() for a caller whose dict of sizes may lack nodes of the graph.
SpecSizes == InitSizes /\ [][Next]_vars

----------------------------------------------------------------------------
\* quasi_topological_sort step by step: the statements of the call of
\* layout's line 207, one action for each loop or call of its body.

\* Lines 274-279: the fast path, or the empty copy of the graph
QtsBegin ==
  /\ pc = "build"
  /\ IF Len(dg.nodes) = 1
     THEN /\ ordered_nodes' = dg.nodes
          /\ pc' = "to_acyclic_graph"
          /\ UNCHANGED dg_copy
     ELSE /\ dg_copy' = EmptyGraph
          /\ pc' = "qts_sccs"
          /\ UNCHANGED ordered_nodes
  /\ UNCHANGED <<dg, err, err_at, node_compare_key, dag, max_rows, max_row, row_to_nodes,
                 cols, max_col, vertical_edges, horizontal_edges, edges,
                 row_heights, col_widths, node_coords, edge_coords, node_sizes, tmp_nodes>>
  /\ UNCHANGED <<layout_options, used_indices, edge_index>>

\* Lines 286-290: the SCCs of two or more nodes; line 289 raises TypeError
\* when there is one
QtsSccs ==
  /\ pc = "qts_sccs"
  /\ IF multi_node_sccs(dg) # {}
     THEN /\ err' = "TypeError"
          /\ err_at' = "quasi_topological_sort"
          /\ pc' = "error"
     ELSE /\ pc' = "qts_collapse"
          /\ UNCHANGED <<err, err_at>>
  /\ UNCHANGED <<dg, node_compare_key, ordered_nodes, dag, max_rows, max_row, row_to_nodes,
                 cols, max_col, vertical_edges, horizontal_edges, edges,
                 row_heights, col_widths, node_coords, edge_coords,
                 node_sizes, dg_copy, tmp_nodes>>
  /\ UNCHANGED <<layout_options, used_indices, edge_index>>

\* Lines 292-306: the loop over dg.edges()
QtsCollapse ==
  /\ pc = "qts_collapse"
  /\ dg_copy' = CollapseEdges(graph_edges(dg), 1, dg_copy)
  /\ pc' = "qts_loners"
  /\ UNCHANGED <<dg, err, err_at, node_compare_key, ordered_nodes, dag, max_rows, max_row,
                 row_to_nodes, cols, max_col, vertical_edges, horizontal_edges, edges,
                 row_heights, col_widths, node_coords, edge_coords, node_sizes, tmp_nodes>>
  /\ UNCHANGED <<layout_options, used_indices, edge_index>>

\* Lines 308-312: the loners
QtsLoners ==
  /\ pc = "qts_loners"
  /\ dg_copy' = AddLoners(dg, 1, dg_copy)
  /\ pc' = "qts_topological_sort"
  /\ UNCHANGED <<dg, err, err_at, node_compare_key, ordered_nodes, dag, max_rows, max_row,
                 row_to_nodes, cols, max_col, vertical_edges, horizontal_edges, edges,
                 row_heights, col_widths, node_coords, edge_coords, node_sizes, tmp_nodes>>
  /\ UNCHANGED <<layout_options, used_indices, edge_index>>

\* Lines 315-317: tmp_nodes, and the empty list ordered_nodes
QtsTopologicalSort ==
  /\ pc = "qts_topological_sort"
  /\ tmp_nodes' = topological_sort(dg_copy)
  /\ ordered_nodes' = <<>>
  /\ pc' = "qts_expand"
  /\ UNCHANGED <<dg, err, err_at, node_compare_key, dag, max_rows, max_row,
                 row_to_nodes, cols, max_col, vertical_edges, horizontal_edges, edges,
                 row_heights, col_widths, node_coords, edge_coords, node_sizes, dg_copy>>
  /\ UNCHANGED <<layout_options, used_indices, edge_index>>

\* Lines 318-322: one turn of the loop over tmp_nodes.  No node of dg_copy
\* is an SCCPlaceholder (line 289 has raised if there is an SCC to collapse),
\* so the turn appends the node.
QtsExpand ==
  /\ pc = "qts_expand"
  /\ tmp_nodes # <<>>
  /\ ordered_nodes' = Append(ordered_nodes, Head(tmp_nodes))
  /\ tmp_nodes' = Tail(tmp_nodes)
  /\ UNCHANGED <<dg, pc, err, err_at, node_compare_key, dag, max_rows, max_row,
                 row_to_nodes, cols, max_col, vertical_edges, horizontal_edges, edges,
                 row_heights, col_widths, node_coords, edge_coords, node_sizes, dg_copy>>
  /\ UNCHANGED <<layout_options, used_indices, edge_index>>

\* Line 324: return ordered_nodes
QtsReturn ==
  /\ pc = "qts_expand"
  /\ tmp_nodes = <<>>
  /\ pc' = "to_acyclic_graph"
  /\ UNCHANGED <<dg, err, err_at, node_compare_key, ordered_nodes, dag, max_rows, max_row,
                 row_to_nodes, cols, max_col, vertical_edges, horizontal_edges, edges,
                 row_heights, col_widths, node_coords, edge_coords,
                 node_sizes, dg_copy, tmp_nodes>>
  /\ UNCHANGED <<layout_options, used_indices, edge_index>>

NextSort ==
  \/ \E n \in Node : AddNode(n)
  \/ \E u, v \in Node : AddEdge(u, v, MaxEdges)
  \/ QtsBegin
  \/ QtsSccs
  \/ QtsCollapse
  \/ QtsLoners
  \/ QtsTopologicalSort
  \/ QtsExpand
  \/ QtsReturn

\* The call is one thread of control: once quasi_topological_sort is entered
\* its next statement runs.
SpecSort ==
  /\ Init
  /\ [][NextSort]_vars
  /\ WF_vars(QtsSccs)
  /\ WF_vars(QtsCollapse)
  /\ WF_vars(QtsLoners)
  /\ WF_vars(QtsTopologicalSort)
  /\ WF_vars(QtsExpand)
  /\ WF_vars(QtsReturn)

----------------------------------------------------------------------------
\* Properties.

IsPermutation(order, nodes) ==
  /\ Len(order) = Len(nodes)
  /\ SeqToSet(order) = SeqToSet(nodes)
  /\ Cardinality(SeqToSet(order)) = Len(order)

\* position of node n in the order
Pos(order, n) == CHOOSE i \in 1..Len(order) : order[i] = n

HasEdge(g, u, v) == u \in DOMAIN g.adj /\ InSeq(v, g.adj[u])

\* quasi_topological_sort has returned
SortReturned == pc # "build" /\ err_at # "quasi_topological_sort"

IsAcyclic(g) == \A n \in DOMAIN g.adj : ~ Reaches(g, n, n)

\* the nodes of g form one strongly connected component of two or more nodes
OneScc(g) == Len(g.nodes) >= 2 /\ multi_node_sccs(g) = {DOMAIN g.adj}

SameRow(n, m) == n # m /\ max_rows[n] = max_rows[m]

\* C1: after assign_columns, two distinct nodes of one row have columns that
\* differ by at least 2, so no two nodes share a GridIndex.
C1_ColumnsApart ==
  \A n, m \in DOMAIN cols :
     /\ SameRow(n, m) => Abs(cols[n] - cols[m]) >= 2
     /\ n # m => locations(cols, max_rows)[n] # locations(cols, max_rows)[m]

\* The top-down pass has placed a node with two predecessors next to another
\* node of its row, and detect_overlap had to move it off its ideal column.
C1_Witness ==
  /\ pc = "route_edges"
  /\ \E n, m \in DOMAIN cols :
        /\ SameRow(n, m)
        /\ Len(dag.pred[n]) >= 2
        /\ Abs(cols[n] - cols[m]) = 2
        /\ \E a, b \in SeqToSet(dag.pred[n]) :
              a # b /\ Abs(FloorDiv(cols[a] + cols[b] + 1, 2) - cols[m]) <= 1

\* C2: for every edge (u, v) of the acyclic projection, the row given by
\* calculate_max_row satisfies row[v] >= row[u] + 1.
C2_RowsBelowPredecessors ==
  pc \in {"assign_rows", "assign_columns", "route_edges"} =>
    \A u \in DOMAIN dag.adj : \A v \in SeqToSet(dag.adj[u]) :
       /\ u \in DOMAIN max_rows
       /\ v \in DOMAIN max_rows
       /\ max_rows[v] >= max_rows[u] + 1

\* calculate_max_row has run on a DAG with an edge that skips a layer.
C2_Witness ==
  /\ pc = "assign_rows"
  /\ \E u \in DOMAIN dag.adj : \E v \in SeqToSet(dag.adj[u]) : max_rows[v] >= max_rows[u] + 2

\* C3: for a graph whose nodes form one strongly connected component of
\* k >= 2 nodes, quasi_topological_sort returns a list with each of the k
\* nodes exactly once.
C3_SingleSccSorted ==
  (pc # "build" /\ OneScc(dg)) =>
    (err_at # "quasi_topological_sort" /\ IsPermutation(ordered_nodes, dg.nodes))

\* C4: for any directed graph, quasi_topological_sort returns a total order:
\* every node of the graph is in the returned list exactly once.
C4_EveryNodeOnce ==
  pc # "build" =>
    (err_at # "quasi_topological_sort" /\ IsPermutation(ordered_nodes, dg.nodes))

\* C5: in the order returned by quasi_topological_sort, for every edge (a, b)
\* of the input graph whose reverse edge (b, a) is not in the graph, a comes
\* before b.
C5_EdgesForward ==
  SortReturned =>
    \A a \in DOMAIN dg.adj : \A b \in SeqToSet(dg.adj[a]) :
       ~ HasEdge(dg, b, a) =>
          /\ InSeq(a, ordered_nodes)
          /\ InSeq(b, ordered_nodes)
          /\ Pos(ordered_nodes, a) < Pos(ordered_nodes, b)

\* An order was returned for a graph that has an edge without a reverse edge
\* and a self-loop, which is its own reverse edge, on a node of the order.
C5_Witness ==
  /\ pc = "to_acyclic_graph"
  /\ \E a, b, c \in DOMAIN dg.adj :
        /\ a # b /\ HasEdge(dg, a, b) /\ ~ HasEdge(dg, b, a)
        /\ HasEdge(dg, c, c) /\ InSeq(c, ordered_nodes)

\* C6: for an acyclic input graph, quasi_topological_sort returns a
\* topological order: every node once, every edge from an earlier to a later
\* position.
C6_DagTopologicalOrder ==
  (pc # "build" /\ IsAcyclic(dg)) =>
    /\ err_at # "quasi_topological_sort"
    /\ IsPermutation(ordered_nodes, dg.nodes)
    /\ \A a \in DOMAIN dg.adj : \A b \in SeqToSet(dg.adj[a]) :
          Pos(ordered_nodes, a) < Pos(ordered_nodes, b)

\* An acyclic graph with three edges whose insertion order is no
\* topological order has been sorted.
C6_Witness ==
  /\ pc = "to_acyclic_graph"
  /\ IsAcyclic(dg)
  /\ number_of_edges(dg) >= 3
  /\ ordered_nodes # dg.nodes
  /\ \E a \in DOMAIN dg.adj : \E b \in SeqToSet(dg.adj[a]) : Pos(dg.nodes, a) > Pos(dg.nodes, b)

\* C7: layout routes every edge of the original graph, back-edges and
\* self-loops included: when layout ends, route_edges has made one
\* SegmentedEdge per original edge and LayoutResult.edges has one polyline
\* per original edge.
C7_EveryEdgeRouted ==
  pc \in {"done", "error"} =>
    /\ [k \in 1..Len(edges) |-> <<edges[k].src, edges[k].dst>>] = graph_edges(dg)
    /\ DOMAIN edge_coords = SeqToSet(graph_edges(dg))

\* a cell's lanes are 0 .. n-1
LanesFromZero(grid) ==
  \A cell \in DOMAIN grid : DOMAIN grid[cell] = 0..(Cardinality(DOMAIN grid[cell]) - 1)

\* C8: after route_edges, in every non-empty cell of the vertical and of the
\* horizontal grid the lanes are distinct and contiguous from zero: a cell
\* with n segments holds the lanes 0 .. n-1.
C8_LanesContiguous ==
  pc \in {"make_grids", "calculate_coordinates", "done"} =>
    LanesFromZero(vertical_edges) /\ LanesFromZero(horizontal_edges)

\* C9: while the edges are routed, whenever the lanes collected over a new
\* segment's span are one lane, that lane is 0: the assertion of
\* first_unused_index never fails.
C9_LoneLaneIsZero == err_at # "first_unused_index"

\* C10: in every polyline of LayoutResult.edges, two consecutive points have
\* the same x or the same y.
C10_Orthogonal ==
  pc = "done" =>
    \A e \in DOMAIN edge_coords : \A k \in 1..(Len(edge_coords[e]) - 1) :
       \/ edge_coords[e][k].x = edge_coords[e][k + 1].x
       \/ edge_coords[e][k].y = edge_coords[e][k + 1].y

\* C11: every polyline of LayoutResult.edges has at least two points, starts
\* on the bottom edge of its source node (anchor y plus the node's height) and
\* ends y_margin above the top edge of its target node.
C11_PolylineEnds ==
  pc = "done" =>
    \A e \in DOMAIN edge_coords :
       /\ Len(edge_coords[e]) >= 2
       /\ edge_coords[e][1].y = node_coords[e[1]].y + node_height
       /\ edge_coords[e][Len(edge_coords[e])].y = node_coords[e[2]].y - y_margin

\* A layout has ended with an edge between two nodes that passes interior
\* waypoints, next to an edge that has none.
C11_Witness ==
  /\ pc = "done"
  /\ \E e, f \in DOMAIN edge_coords :
        /\ e[1] # e[2]
        /\ Len(edge_coords[e]) >= 4
        /\ \E k \in 1..Len(edges) : <<edges[k].src, edges[k].dst>> = f /\ Len(edges[k].points) = 1

\* C12: in every polyline of LayoutResult.edges no three consecutive points
\* have the same x and no three consecutive points have the same y.
C12_CollinearMerged ==
  pc = "done" =>
    \A e \in DOMAIN edge_coords : \A k \in 1..(Len(edge_coords[e]) - 2) :
       /\ ~ (edge_coords[e][k].x = edge_coords[e][k + 1].x
             /\ edge_coords[e][k + 1].x = edge_coords[e][k + 2].x)
       /\ ~ (edge_coords[e][k].y = edge_coords[e][k + 1].y
             /\ edge_coords[e][k + 1].y = edge_coords[e][k + 2].y)

\* route_edges has returned
EdgesRouted == pc \in {"make_grids", "calculate_coordinates", "done"}

\* C13: after route_edges, the k >= 1 edges that enter a node have the
\* end_index values 0 .. k-1, each once, and max_end_index k-1; the k >= 1
\* edges that leave a node have the start_index values 0 .. k-1, each once,
\* and max_start_index k-1.
C13_SiblingIndices ==
  EdgesRouted =>
    \A n \in DOMAIN dg.adj :
       LET ins  == SeqToSet(InEdgesOf(edges, n))
           outs == SeqToSet(OutEdgesOf(edges, n))
       IN  /\ \A i \in 0..(Cardinality(ins) - 1) :
                Cardinality({k \in ins : edges[k].end_index = Some(i)}) = 1
           /\ \A k \in ins : edges[k].max_end_index = Some(Cardinality(ins) - 1)
           /\ \A i \in 0..(Cardinality(outs) - 1) :
                Cardinality({k \in outs : edges[k].start_index = Some(i)}) = 1
           /\ \A k \in outs : edges[k].max_start_index = Cardinality(outs) - 1

\* Two edges enter one node and the sort by last move has put the edge that
\* was routed second in front of the edge that was routed first.
C13_Witness ==
  /\ EdgesRouted
  /\ \E j, k \in 1..Len(edges) :
        /\ j < k
        /\ edges[j].dst = edges[k].dst
        /\ Len(InEdgesOf(edges, edges[k].dst)) = 2
        /\ edges[k].end_index = Some(0)
        /\ edges[j].end_index = Some(1)
        /\ edges[j].max_end_index = Some(1)

\* layout() has ended: it returned, or it raised
LayoutEnded == pc \in {"done", "error"}

InSort == pc \in {"qts_sccs", "qts_collapse", "qts_loners", "qts_topological_sort", "qts_expand"}

\* C15: quasi_topological_sort terminates on every graph and has no failure:
\* a call that has been entered returns its order (line 324), the strongly
\* connected components having been ordered by the recursive calls of
\* _append_scc.
C15_SortReturns == InSort ~> (pc = "to_acyclic_graph")

\* node_sizes has no entry for some node of the graph
SizeMissing == \E n \in DOMAIN dg.adj : n \notin DOMAIN node_sizes

\* C16: when node_sizes lacks a node of the graph, layout ends in an error
\* and returns nothing: no node position and no polyline is produced.
C16_MissingSizeFails ==
  SizeMissing =>
    /\ pc \notin {"calculate_coordinates", "done"}
    /\ LayoutEnded => (pc = "error" /\ err # "none")
    /\ node_coords = EmptyMap
    /\ edge_coords = EmptyMap

\* Every stage before make_grids has succeeded on a graph with edges, and
\* make_grids has raised KeyError for the node without a size.
C16_Witness ==
  /\ SizeMissing
  /\ pc = "error"
  /\ err = "KeyError"
  /\ err_at = "make_grids"
  /\ Len(edges) >= 2
  /\ \A n \in DOMAIN dg.adj : n \in DOMAIN cols
  /\ \E n \in DOMAIN dg.adj : n \in DOMAIN node_sizes

\* the graph is the whole graph of EmberWindow.setup
DemoBuilt == number_of_edges(dg) = Len(DemoEdges)

\* the SegmentedEdge of edge e
Routed(e) == edges[CHOOSE k \in 1..Len(edges) : <<edges[k].src, edges[k].dst>> = e]

\* The waypoint that ends the vertical channel segment of a routed edge that
\* goes down two rows or more: the first waypoint in the target's row.
ChannelPoint(e) ==
  IF Routed(e).points[2].row = max_rows[e[1]] + 1 THEN Routed(e).points[3] ELSE Routed(e).points[2]

\* the cells of the vertical grid that the channel segment of edge e spans
ChannelSpan(e) ==
  {<<ChannelPoint(e).col, r>> :
     r \in Min(max_rows[e[1]] + 2, max_rows[e[2]])
           ..(Min(max_rows[e[1]] + 2, max_rows[e[2]]) + Abs(max_rows[e[2]] - max_rows[e[1]] - 1) + 1)}

\* C17: for the graph a..f of EmberWindow.setup with node size (100, 40):
\* row[a] = 0, row[f] is the largest row, row[b] = row[c]; and in every cell
\* that the vertical channel segment of b->e or of d->f spans, the segment
\* holds its lane and every other segment of the cell has another lane.
C17_DemoGraph ==
  /\ (DemoBuilt /\ pc \in {"assign_rows", "assign_columns", "route_edges", "route_edge",
                           "make_grids", "calculate_coordinates", "done"}) =>
       /\ max_rows[1] = 0
       /\ \A n \in DOMAIN max_rows : max_rows[n] <= max_rows[6]
       /\ max_rows[6] = max_row
       /\ max_rows[2] = max_rows[3]
  /\ (DemoBuilt /\ pc \in {"route_edge", "error"}) => err = "none" /\ pc = "route_edge"
  /\ (DemoBuilt /\ EdgesRouted) =>
       \A e \in {<<2, 5>>, <<4, 6>>} : \A cell \in ChannelSpan(e) :
          /\ cell \in DOMAIN vertical_edges
          /\ ChannelPoint(e).idx \in DOMAIN vertical_edges[cell]
          /\ \A i \in DOMAIN vertical_edges[cell] :
                (i = ChannelPoint(e).idx) <=> (vertical_edges[cell][i] = e)

\* The layout of the whole graph has ended, and a cell of the channel of
\* d->f holds a segment of another edge as well.
C17_Witness ==
  /\ DemoBuilt
  /\ pc = "done"
  /\ \E cell \in ChannelSpan(<<4, 6>>) : \E i \in DOMAIN vertical_edges[cell] :
        vertical_edges[cell][i] # <<4, 6>>

\* the graph is one node without an edge, and layout has been called on it
SingleNode == Len(dg.nodes) = 1 /\ number_of_edges(dg) = 0 /\ pc # "build"

\* C18: on a graph of a single node and no edge, layout raises nothing at any
\* stage; the node gets row 0, which is also max_row, and a column within
\* 0..max_col; no edge is routed; the result holds the position of that node
\* alone and an empty edge map.
C18_SingleNode ==
  SingleNode =>
    LET n == dg.nodes[1]
    IN  /\ pc # "error"
        /\ err = "none"
        /\ pc # "to_acyclic_graph" => ordered_nodes = <<n>>
        /\ pc \notin {"to_acyclic_graph", "calculate_max_row"} =>
              (max_rows = (n :> 0) /\ max_row = 0)
        /\ pc \notin {"to_acyclic_graph", "calculate_max_row", "assign_rows", "assign_columns"} =>
              (DOMAIN cols = {n} /\ cols[n] \in 0..max_col)
        /\ edges = <<>>
        /\ LayoutEnded =>
              /\ pc = "done"
              /\ DOMAIN node_coords = {n}
              /\ edge_coords = EmptyMap

C18_Witness ==
  /\ SingleNode
  /\ pc = "done"
  /\ max_rows = (dg.nodes[1] :> 0)
  /\ dg.nodes[1] \in DOMAIN cols
  /\ DOMAIN node_coords = {dg.nodes[1]}
  /\ edge_coords = EmptyMap

\* the edges of g as a set
EdgeSet(g) == {e \in (DOMAIN g.adj) \X (DOMAIN g.adj) : InSeq(e[2], g.adj[e[1]])}

\* to_acyclic_graph has returned
AcyclicBuilt == pc \in {"calculate_max_row", "assign_rows"} /\ err = "none"

\* C19: for any graph and any order that lists every node once,
\* to_acyclic_graph returns a graph on the same nodes whose edges are exactly
\* the edges (u, v) of the graph with u before v in the order; so the result
\* has no cycle and no self-loop, and every edge of it is an edge of the graph.
C19_ForwardEdges ==
  (AcyclicBuilt /\ IsPermutation(ordered_nodes, dg.nodes)) =>
    /\ DOMAIN dag.adj = DOMAIN dg.adj
    /\ SeqToSet(dag.nodes) = SeqToSet(dg.nodes)
    /\ Len(dag.nodes) = Len(dg.nodes)
    /\ EdgeSet(dag) = {e \in EdgeSet(dg) : Pos(ordered_nodes, e[1]) < Pos(ordered_nodes, e[2])}
    /\ number_of_edges(dag) = Cardinality(EdgeSet(dag))
    /\ \A n \in DOMAIN dag.adj : SeqToSet(dag.pred[n]) = {u \in DOMAIN dag.adj : InSeq(n, dag.adj[u])}
    /\ IsAcyclic(dag)
    /\ \A n \in DOMAIN dag.adj : ~ InSeq(n, dag.adj[n])
    /\ EdgeSet(dag) \subseteq EdgeSet(dg)

\* an order that is not the order of insertion, on a graph with a self-loop,
\* a two-node cycle and an edge that runs forward in the order
C19_Witness ==
  /\ AcyclicBuilt
  /\ IsPermutation(ordered_nodes, dg.nodes)
  /\ ordered_nodes # dg.nodes
  /\ \E n \in DOMAIN dg.adj : InSeq(n, dg.adj[n])
  /\ \E u, v \in DOMAIN dg.adj : u # v /\ InSeq(v, dg.adj[u]) /\ InSeq(u, dg.adj[v])
  /\ number_of_edges(dag) = 1
  /\ number_of_edges(dg) = 3

RECURSIVE LongestPathTo(_, _)
\* the number of edges on the longest path of the acyclic graph d that ends at n
LongestPathTo(d, n) ==
  IF d.pred[n] = <<>> THEN 0
  ELSE LET via == {LongestPathTo(d, p) : p \in SeqToSet(d.pred[n])}
       IN  1 + (CHOOSE m \in via : \A k \in via : k <= m)

\* calculate_max_row has returned, for an order consistent with the DAG
RowsAssigned ==
  /\ pc = "assign_rows"
  /\ err = "none"
  /\ IsPermutation(ordered_nodes, dag.nodes)
  /\ IsAcyclic(dag)
  /\ \A e \in EdgeSet(dag) : Pos(ordered_nodes, e[1]) < Pos(ordered_nodes, e[2])

\* C20: calculate_max_row is longest-path layering.  For an order consistent
\* with the DAG every node gets a row, the row of a node is the number of
\* edges on the longest path of the DAG that ends at it, which is 0 exactly
\* for the nodes without a predecessor in the DAG, and max_row is the largest
\* row (0 when there is no node).
C20_LongestPath ==
  RowsAssigned =>
    /\ DOMAIN max_rows = DOMAIN dag.adj
    /\ \A n \in DOMAIN dag.adj : max_rows[n] = LongestPathTo(dag, n)
    /\ \A n \in DOMAIN dag.adj : (max_rows[n] = 0) <=> (dag.pred[n] = <<>>)
    /\ \A n \in DOMAIN dag.adj : max_rows[n] <= max_row
    /\ max_row = 0 \/ \E n \in DOMAIN dag.adj : max_rows[n] = max_row

\* a node with a short and a long path to it, on an order that is not the
\* order of insertion: its row is the length of the long one
C20_Witness ==
  /\ RowsAssigned
  /\ ordered_nodes # dg.nodes
  /\ \E u, v, w \in DOMAIN dag.adj :
        /\ InSeq(w, dag.adj[u])
        /\ InSeq(v, dag.adj[u])
        /\ InSeq(w, dag.adj[v])
        /\ dag.adj[u][1] = w
        /\ max_rows[u] = 0
        /\ max_rows[v] = 1
        /\ max_rows[w] = 2
  /\ max_row = 2

\* C21: in the columns that assign_columns returns, the nodes of a row
\* stand from left to right in the order of the caller's key: of two nodes
\* of one row the one with the smaller key has the smaller column, also when
\* the top-down pass has moved a node with two or more predecessors.
C21_KeyOrderKept ==
  pc = "route_edges" =>
    \A u, v \in DOMAIN cols :
       (SameRow(u, v) /\ node_compare_key[u] < node_compare_key[v]) => cols[u] < cols[v]

\* the call of first_unused_index has ended, by a return or by an exception
FirstUnusedEnded == pc = "returned" \/ (pc = "error" /\ err_at = "first_unused_index")

\* C22: first_unused_index is first-fit.  For every finite set of
\* non-negative lane indices it returns, without an exception, the smallest
\* non-negative integer that is not in the set.
C22_FirstFit ==
  FirstUnusedEnded =>
    /\ err = "none"
    /\ edge_index # None
    /\ edge_index[1] \notin used_indices
    /\ \A i \in 0..(edge_index[1] - 1) : i \in used_indices

\* What one call that returned has done to its grid: old and new are the grid
\* before and after, cells the span, e the edge, lane the index returned.
LaneWritten(old, new, cells, e, lane) ==
  /\ \A cell \in cells : lane \notin DOMAIN CellOf(old, cell)
  /\ \A cell \in cells : lane \in DOMAIN CellOf(new, cell) /\ new[cell][lane] = e
  /\ \A cell \in DOMAIN old : \A l \in DOMAIN old[cell] :
        cell \in DOMAIN new /\ l \in DOMAIN new[cell] /\ new[cell][l] = old[cell][l]
  /\ \A cell \in DOMAIN new :
        DOMAIN new[cell] = DOMAIN CellOf(old, cell) \cup (IF cell \in cells THEN {lane} ELSE {})

\* C23 for one call of assign_vertical_edge
C23_Vertical(e, c, r, n) ==
  (AssignVerticalEdge(e, c, r, n) /\ err' = "none") =>
    LET cells == SpanCells([k \in 1..(n + 1) |-> <<c, r + k - 1>>], max_col + 2, max_row + 3)
    IN  /\ edge_index' # None
        /\ LaneWritten(vertical_edges, vertical_edges', cells, e, edge_index'[1])
        /\ (c >= 0 /\ r >= 0) => Cardinality(cells) = n + 1
        /\ horizontal_edges' = horizontal_edges

\* C23 for one call of assign_horizontal_edge
C23_Horizontal(e, c, r, n) ==
  (AssignHorizontalEdge(e, c, r, n) /\ err' = "none") =>
    LET cells == SpanCells([k \in 1..(n + 1) |-> <<c + k - 1, r>>], max_col + 2, max_row + 3)
    IN  /\ edge_index' # None
        /\ LaneWritten(horizontal_edges, horizontal_edges', cells, e, edge_index'[1])
        /\ (c >= 0 /\ r >= 0) => Cardinality(cells) = n + 1
        /\ vertical_edges' = vertical_edges

\* C23: a call of assign_vertical_edge or assign_horizontal_edge that returns
\* has picked a lane that was in no cell of the span, has written that one
\* lane, for its edge, into every cell of the span (num_blocks + 1 cells), and
\* has changed nothing else: every entry that was in the grid is still there
\* with its edge, no cell outside the span has a new entry, and the other
\* grid is as it was.
C23_SpanWritten ==
  [][\A e \in LaneEdge, c \in LaneCol, r \in LaneRow, n \in 0..MaxBlocks :
        C23_Vertical(e, c, r, n) /\ C23_Horizontal(e, c, r, n)]_vars

\* A call has put lane 1 into a span of two or more cells, one of which
\* already held lane 0 of another edge and one of which was empty.
C23_Witness ==
  /\ pc = "assign_edge"
  /\ edge_index = Some(1)
  /\ used_indices = {0}
  /\ \E a, b \in DOMAIN vertical_edges :
        /\ a # b
        /\ DOMAIN vertical_edges[a] = {0, 1}
        /\ vertical_edges[a][0] # vertical_edges[a][1]
        /\ DOMAIN vertical_edges[b] = {1}
        /\ vertical_edges[b][1] = vertical_edges[a][1]

\* The column of the vertical channel of the routed edge s: route_edge keeps
\* the start column when the target's row is the row below the source, and
\* otherwise the second waypoint is in the channel.
ChannelCol(s) ==
  IF max_rows[s.src] + 1 = max_rows[s.dst] THEN s.points[1].col ELSE s.points[2].col

\* column c holds no node (neither as a node's column nor as its column + 1)
\* in the rows the channel of the routed edge s passes
ChannelFree(s, c) ==
  \A r \in Min(max_rows[s.src] + 1, max_rows[s.dst])..(Max(max_rows[s.src] + 1, max_rows[s.dst]) - 1) :
     \A n \in DOMAIN cols : max_rows[n] = r => (cols[n] # c /\ cols[n] + 1 # c)

\* C24: the channel column of every routed edge is a column of the grid that
\* holds no node in the rows from min(src_row + 1, dst_row) up to but
\* excluding max(src_row + 1, dst_row); no free column is closer to
\* src_col + 1, and of a left and a right column equally close the right one
\* is taken.
C24_ChannelColumn ==
  pc \in {"route_edge", "make_grids", "calculate_coordinates", "done", "error"} =>
    \A k \in 1..Len(edges) :
       LET s == edges[k]
           start_col == cols[s.src] + 1
       IN  /\ ChannelCol(s) \in 0..(max_col + 1)
           /\ ChannelFree(s, ChannelCol(s))
           /\ \A c \in 0..(max_col + 1) :
                 ChannelFree(s, c) =>
                   /\ Abs(c - start_col) >= Abs(ChannelCol(s) - start_col)
                   /\ Abs(c - start_col) = Abs(ChannelCol(s) - start_col) => c <= ChannelCol(s)

\* An edge has been routed around a node below its source: its channel is to
\* the right of src_col + 1, and the column as far to the left is free too.
C24_Witness ==
  /\ pc = "done"
  /\ \E k \in 1..Len(edges) :
        /\ ChannelCol(edges[k]) > cols[edges[k].src] + 1
        /\ ChannelFree(edges[k], 2 * (cols[edges[k].src] + 1) - ChannelCol(edges[k]))
        /\ 2 * (cols[edges[k].src] + 1) - ChannelCol(edges[k]) >= 0

\* C25: every routed edge has 1 to 5 grid waypoints, the first at
\* (src_col + 1, src_row + 1), the last at (dst_col + 1, dst_row), and two
\* consecutive waypoints share their column or their row; calculate_coordinates
\* raises no AssertionError.
C25_Waypoints ==
  /\ \A k \in 1..Len(edges) :
        LET pts == edges[k].points
        IN  /\ Len(pts) \in 1..5
            /\ pts[1].col = cols[edges[k].src] + 1
            /\ pts[1].row = max_rows[edges[k].src] + 1
            /\ pts[Len(pts)].col = cols[edges[k].dst] + 1
            /\ pts[Len(pts)].row = max_rows[edges[k].dst]
            /\ \A i \in 1..(Len(pts) - 1) : pts[i].col = pts[i + 1].col \/ pts[i].row = pts[i + 1].row
  /\ ~ (err = "AssertionError" /\ err_at = "calculate_coordinates")

\* A layout has ended with an edge of five waypoints, with a turn in the
\* start row and a turn in the target's row, next to an edge of one waypoint.
C25_Witness ==
  /\ pc = "done"
  /\ \E k, j \in 1..Len(edges) :
        /\ Len(edges[k].points) = 5
        /\ edges[k].points[2].row = edges[k].points[1].row
        /\ edges[k].points[2].col # edges[k].points[1].col
        /\ edges[k].points[3].col = edges[k].points[2].col
        /\ edges[k].points[4].row = edges[k].points[3].row
        /\ Len(edges[j].points) = 1

\* make_grids has returned
GridsMade == pc \in {"calculate_coordinates", "done"}

\* C26: after make_grids, a column is at least (k + 2) * x_margin wide for
\* every cell of it whose highest vertical lane is k, and a row is at least
\* (k + 2) * y_margin high for every cell of it whose highest horizontal lane
\* is k; this holds for every cell that route_edges has written, the cells
\* of the bottom rows of the two grids included.
C26_RoomForLanes ==
  GridsMade =>
    /\ \A cell \in DOMAIN vertical_edges :
          /\ cell[1] \in DOMAIN col_widths
          /\ col_widths[cell[1]] >= (MaxOf(DOMAIN vertical_edges[cell]) + 2) * x_margin
    /\ \A cell \in DOMAIN horizontal_edges :
          /\ cell[2] \in DOMAIN row_heights
          /\ row_heights[cell[2]] >= (MaxOf(DOMAIN horizontal_edges[cell]) + 2) * y_margin

\* A layout has ended with a vertical segment in a cell of row max_row + 2,
\* the last row of the grid and a row make_grids does not visit, and with a
\* row whose height is what its horizontal lanes ask for.
C26_Witness ==
  /\ pc = "done"
  /\ \E cell \in DOMAIN vertical_edges : cell[2] = max_row + 2
  /\ \E cell \in DOMAIN horizontal_edges :
        row_heights[cell[2]] = (MaxOf(DOMAIN horizontal_edges[cell]) + 2) * y_margin

\* the base y of the gap above the row of waypoint pt (line 975)
WaypointBaseY(pt) ==
  GridY(row_heights, row_max_idxs(calculate_max_edge_indices(horizontal_edges)), pt.row - 1)
    + PyGet(row_heights, pt.row - 1) + row_margin

\* waypoint i of edge e is an interior waypoint in the column of the waypoint
\* before it, and not the last interior one
VerticalNotPenultimate(e, i) ==
  /\ 2 <= i /\ i <= Len(e.points) - 2
  /\ e.points[i].col = e.points[i - 1].col

\* C27: the polyline of an edge has, for each vertical interior waypoint of the
\* edge that is not the penultimate one, a point whose y is the base y of the
\* gap above the waypoint's row plus the next waypoint's lane index times
\* y_margin.
C27_VerticalLaneScaled ==
  pc = "done" =>
    \A k \in 1..Len(edges) : \A i \in 1..Len(edges[k].points) :
       VerticalNotPenultimate(edges[k], i) =>
         \E j \in 1..Len(edge_coords[<<edges[k].src, edges[k].dst>>]) :
            edge_coords[<<edges[k].src, edges[k].dst>>][j].y
              = WaypointBaseY(edges[k].points[i]) + edges[k].points[i + 1].idx * y_margin

\* assign_columns has returned
ColumnsAssigned ==
  pc \in {"route_edges", "route_edge", "make_grids", "calculate_coordinates", "done"}

\* the column in which edge e runs from its start row to its end row
ChannelOf(e) ==
  IF \A i \in 1..Len(e.points) : e.points[i].row = e.points[1].row
  THEN e.points[1].col
  ELSE IF e.points[2].row = e.points[1].row THEN e.points[2].col ELSE e.points[1].col

\* the columns that the channel search of route_edge has passed to
\* edge_available for an edge that starts in column start_col and got the
\* channel ch: start_col, then start_col + 1, start_col - 1, start_col + 2, ...
ColumnsTried(start_col, ch) ==
  IF ch = start_col THEN {start_col}
  ELSE IF ch > start_col
  THEN (2 * start_col - ch + 1)..ch
  ELSE ch..(2 * start_col - ch)

\* C28: every node column c has 1 <= c and c + 1 <= max_col; route_edge never
\* raises IndexError; the columns its channel search tries are in
\* 0..max_col+1; every waypoint and every used cell of the two lane grids has
\* its column in 0..max_col+1 and its row in 0..max_row+2.
C28_IndicesInRange ==
  /\ ColumnsAssigned =>
       \A n \in DOMAIN cols : 1 <= cols[n] /\ cols[n] + 1 <= max_col
  /\ ~ (err = "IndexError" /\ err_at = "route_edge")
  /\ pc \in {"route_edge", "make_grids", "calculate_coordinates", "done"} =>
       /\ \A k \in 1..Len(edges) :
             /\ ColumnsTried(edges[k].points[1].col, ChannelOf(edges[k])) \subseteq 0..(max_col + 1)
             /\ \A i \in 1..Len(edges[k].points) :
                   /\ edges[k].points[i].col \in 0..(max_col + 1)
                   /\ edges[k].points[i].row \in 0..(max_row + 1)
       /\ \A cell \in DOMAIN vertical_edges \cup DOMAIN horizontal_edges :
             cell[1] \in 0..(max_col + 1) /\ cell[2] \in 0..(max_row + 2)

\* All edges of a graph are routed; the channel search has given one of them
\* column 0 after trying columns on both sides, and one of them column
\* max_col + 1.
C28_Witness ==
  /\ pc = "done"
  /\ \E k \in 1..Len(edges) :
        ChannelOf(edges[k]) = 0 /\ edges[k].points[1].col >= 2
  /\ \E k \in 1..Len(edges) : ChannelOf(edges[k]) = max_col + 1

\* the scene rectangles of nodes a and b, anchor to anchor + (width, height),
\* have a point in common that is inside both
RectanglesOverlap(a, b) ==
  /\ node_coords[a].x < node_coords[b].x + node_sizes[b].width
  /\ node_coords[b].x < node_coords[a].x + node_sizes[a].width
  /\ node_coords[a].y < node_coords[b].y + node_sizes[b].height
  /\ node_coords[b].y < node_coords[a].y + node_sizes[a].height

\* C29: in the LayoutResult, for any node sizes and any non-negative margins,
\* the scene rectangles of two distinct nodes do not overlap.
C29_NoOverlap ==
  pc = "done" =>
    \A a, b \in DOMAIN node_coords : a # b => ~ RectanglesOverlap(a, b)

\* the positions that the nodes of S have in the order returned by
\* quasi_topological_sort
SccPositions(S) == {Pos(ordered_nodes, n) : n \in S}

\* the positions before position first of the nodes with a successor in S
SccParents(S, first) ==
  {i \in 1..(first - 1) : \E n \in S : HasEdge(dg, ordered_nodes[i], n)}

\* the nodes of S are at first, first + 1, ... and the node at first is a
\* direct successor of the last node before it that has a successor in S
SccConsecutiveFrom(S, first) ==
  /\ SccPositions(S) = first..(first + Cardinality(S) - 1)
  /\ SccParents(S, first) # {} =>
       HasEdge(dg, ordered_nodes[MaxOf(SccParents(S, first))], ordered_nodes[first])

\* C30: when the graph has a strongly connected component of two or more
\* nodes, quasi_topological_sort returns an order in which the nodes of the
\* component are at consecutive positions, and the first of them (the loop
\* head) is a direct successor of the most recently emitted node that has a
\* successor in the component, when there is such a node.
C30_SccExpanded ==
  pc # "build" =>
    \A S \in multi_node_sccs(dg) :
       /\ err_at # "quasi_topological_sort"
       /\ \A n \in S : InSeq(n, ordered_nodes)
       /\ SccConsecutiveFrom(S, CHOOSE i \in SccPositions(S) : \A j \in SccPositions(S) : i <= j)

====
